---- MODULE Spec2Model ----
(***************************************************************************)
(* Credit-card OCR validator: the reconciliation run of pages/Index.tsx    *)
(* (processImages), its folder matcher and name normalizers, and the card  *)
(* validator of lib/luhn.ts.  Strings are TLA+ strings; characters are     *)
(* strings of length 1.                                                    *)
(***************************************************************************)
EXTENDS Integers, Sequences, FiniteSets, TLC

(***************************************************************************)
(* JavaScript string primitives used by the source.                        *)
(***************************************************************************)
Undefined == "<undefined>"

\* JS truthiness of a string-or-undefined value: '' and undefined are falsy.
Falsy(v) == v = "" \/ v = Undefined

Chr(s, i) == SubSeq(s, i, i)

Rest(s) == SubSeq(s, 2, Len(s))

UpperLetters == "ABCDEFGHIJKLMNOPQRSTUVWXYZ"

LowerLetters == "abcdefghijklmnopqrstuvwxyz"

DigitChars == "0123456789"

HexLetters == "abcdefABCDEF"

InStr(c, alphabet) == \E i \in 1..Len(alphabet) : Chr(alphabet, i) = c

PosIn(c, alphabet) == CHOOSE i \in 1..Len(alphabet) : Chr(alphabet, i) = c

IsSpace(c) == c = " " \/ c = "\t"

LowerChar(c) == IF InStr(c, UpperLetters) THEN Chr(LowerLetters, PosIn(c, UpperLetters)) ELSE c

UpperChar(c) == IF InStr(c, LowerLetters) THEN Chr(UpperLetters, PosIn(c, LowerLetters)) ELSE c

RECURSIVE toLowerCase(_)
toLowerCase(s) == IF s = "" THEN "" ELSE LowerChar(Chr(s, 1)) \o toLowerCase(Rest(s))

RECURSIVE toUpperCase(_)
toUpperCase(s) == IF s = "" THEN "" ELSE UpperChar(Chr(s, 1)) \o toUpperCase(Rest(s))

\* .replace(/[_-]/g, ' ')
RECURSIVE ReplaceUnderscoreHyphen(_)
ReplaceUnderscoreHyphen(s) ==
    IF s = "" THEN ""
    ELSE (IF Chr(s, 1) = "_" \/ Chr(s, 1) = "-" THEN " " ELSE Chr(s, 1))
         \o ReplaceUnderscoreHyphen(Rest(s))

\* .replace(/\s+/g, ' '): every maximal run of whitespace becomes one space
RECURSIVE CollapseSpaces(_)
CollapseSpaces(s) ==
    IF s = "" THEN ""
    ELSE IF IsSpace(Chr(s, 1))
         THEN IF Len(s) >= 2 /\ IsSpace(Chr(s, 2))
              THEN CollapseSpaces(Rest(s))
              ELSE " " \o CollapseSpaces(Rest(s))
         ELSE Chr(s, 1) \o CollapseSpaces(Rest(s))

\* .replace(/x/g, '') for a single character x
RECURSIVE RemoveChar(_, _)
RemoveChar(s, x) ==
    IF s = "" THEN ""
    ELSE (IF Chr(s, 1) = x THEN "" ELSE Chr(s, 1)) \o RemoveChar(Rest(s), x)

RECURSIVE TrimStart(_)
TrimStart(s) == IF s # "" /\ IsSpace(Chr(s, 1)) THEN TrimStart(Rest(s)) ELSE s

RECURSIVE TrimEnd(_)
TrimEnd(s) ==
    IF s # "" /\ IsSpace(Chr(s, Len(s))) THEN TrimEnd(SubSeq(s, 1, Len(s) - 1)) ELSE s

Trim(s) == TrimEnd(TrimStart(s))

\* a.includes(b)
Includes(a, b) == \E i \in 1..(Len(a) - Len(b) + 1) : SubSeq(a, i, i + Len(b) - 1) = b

\* s.split('_')
RECURSIVE SplitUnderscore(_, _)
SplitUnderscore(s, cur) ==
    IF s = "" THEN <<cur>>
    ELSE IF Chr(s, 1) = "_"
         THEN <<cur>> \o SplitUnderscore(Rest(s), "")
         ELSE SplitUnderscore(Rest(s), cur \o Chr(s, 1))

\* parts.join(' ')
RECURSIVE JoinSpace(_)
JoinSpace(parts) ==
    IF Len(parts) = 0 THEN ""
    ELSE IF Len(parts) = 1 THEN parts[1]
         ELSE parts[1] \o " " \o JoinSpace(Tail(parts))

\* .replace(/\D/g, '')
RECURSIVE StripNonDigits(_)
StripNonDigits(s) ==
    IF s = "" THEN ""
    ELSE (IF InStr(Chr(s, 1), DigitChars) THEN Chr(s, 1) ELSE "") \o StripNonDigits(Rest(s))

\* s has no character that .replace(/\D/g, '') would remove
IsDigits(s) == \A i \in 1..Len(s) : InStr(Chr(s, i), DigitChars)

(***************************************************************************)
(* Name normalizers and the folder-name parser.                            *)
(***************************************************************************)
\* /^[a-f0-9]{8,}$/i
HashLen == 8

IsHashToken(t) ==
    /\ Len(t) >= HashLen
    /\ \A i \in 1..Len(t) : InStr(Chr(t, i), DigitChars) \/ InStr(Chr(t, i), HexLetters)

\* a parser that also stops at a hash-like token in first position
RECURSIVE CustomerPartsAnyPosition(_, _)
CustomerPartsAnyPosition(parts, i) ==
    IF i > Len(parts) THEN <<>>
    ELSE IF IsHashToken(parts[i]) THEN <<>>
         ELSE <<parts[i]>> \o CustomerPartsAnyPosition(parts, i + 1)

RECURSIVE CustomerParts(_, _)
CustomerParts(parts, i) ==
    IF i > Len(parts) THEN <<>>
    ELSE IF IsHashToken(parts[i]) /\ i > 1 THEN <<>>
         ELSE <<parts[i]>> \o CustomerParts(parts, i + 1)

extractCustomerName(folderName) ==
    Trim(JoinSpace(CustomerParts(SplitUnderscore(folderName, ""), 1)))

normalizeForComparison(str) ==
    IF Falsy(str) THEN ""
    ELSE Trim(CollapseSpaces(ReplaceUnderscoreHyphen(toLowerCase(str))))

normalizeCustomerName(name) ==
    IF Falsy(name) THEN ""
    ELSE Trim(RemoveChar(RemoveChar(
            CollapseSpaces(ReplaceUnderscoreHyphen(toUpperCase(name))), "."), ","))

(***************************************************************************)
(* lib/luhn.ts: CreditCardValidator.                                       *)
(***************************************************************************)
ToDigit(c) == PosIn(c, DigitChars) - 1

RECURSIVE ToNum(_)
ToNum(s) == IF s = "" THEN 0 ELSE 10 * ToNum(SubSeq(s, 1, Len(s) - 1)) + ToDigit(Chr(s, Len(s)))

\* the number formed by the first k digits, or -1 when there are fewer than k
PrefixNum(s, k) == IF Len(s) >= k THEN ToNum(SubSeq(s, 1, k)) ELSE -1

LENGTHS ==
    [AMEX |-> {15}, VISA |-> {13, 16, 19}, MASTER |-> {16}, DISCOVER |-> {16, 19},
     JCB |-> {16, 19}, DINERS |-> {14, 16, 19}, UNIONPAY |-> {16, 17, 18, 19},
     MAESTRO |-> {12, 13, 14, 15, 16, 17, 18, 19}]

\* digit i of the loop `for (i = number.length - 1; i >= 0; i--)`, with the
\* shouldDouble flag carried from the right
RECURSIVE LuhnSum(_, _, _)
LuhnSum(number, i, shouldDouble) ==
    IF i < 1 THEN 0
    ELSE LET d == ToDigit(Chr(number, i))
             dd == IF shouldDouble THEN (IF 2 * d > 9 THEN 2 * d - 9 ELSE 2 * d) ELSE d
         IN dd + LuhnSum(number, i - 1, ~shouldDouble)

luhnCheck(number) == LuhnSum(number, Len(number), FALSE) % 10 = 0

validateTypeAndLength(number) ==
    LET p1 == PrefixNum(number, 1)
        p2 == PrefixNum(number, 2)
        p3 == PrefixNum(number, 3)
        p4 == PrefixNum(number, 4)
        p6 == PrefixNum(number, 6)
        n  == Len(number)
    IN IF p2 \in {34, 37} THEN n \in LENGTHS.AMEX
       ELSE IF p1 = 4 THEN n \in LENGTHS.VISA
       ELSE IF p2 \in 51..55 \/ p4 \in 2221..2720 THEN n \in LENGTHS.MASTER
       ELSE IF p4 = 6011 \/ p2 = 65 \/ p3 \in 644..649 \/ p6 \in 622126..622925
            THEN n \in LENGTHS.DISCOVER
       ELSE IF p4 \in 3528..3589 THEN n \in LENGTHS.JCB
       ELSE IF p3 \in 300..305 \/ p2 \in {36, 38, 39} THEN n \in LENGTHS.DINERS
       ELSE IF p2 = 62 THEN n \in LENGTHS.UNIONPAY
       ELSE IF p4 \in {5018, 5020, 5038, 6304, 6759} \/ p2 = 58 \/ p4 \in 6761..6763
            THEN n \in LENGTHS.MAESTRO
       ELSE FALSE

\* a validator that gives up on any text carrying a non-digit
luhn_validate_digits_only(fullcode) ==
    IF ~IsDigits(fullcode) \/ fullcode = "" THEN FALSE
    ELSE IF ~validateTypeAndLength(fullcode) THEN FALSE
    ELSE luhnCheck(fullcode)

\* CreditCardValidator.validate, exported as luhn_validate
luhn_validate(fullcode) ==
    LET cleaned == StripNonDigits(fullcode)
    IN IF cleaned = "" THEN FALSE
       ELSE IF ~validateTypeAndLength(cleaned) THEN FALSE
       ELSE luhnCheck(cleaned)

(***************************************************************************)
(* lib/ocrApi.ts: sendToOCR.  A response is what the service answered:     *)
(* ok = HTTP success, value = Credit_Card_Number.value (or Undefined).     *)
(***************************************************************************)
Throw == "<throw>"

\* a gateway that returns whatever is left of a present value after the
\* non-digits are taken out, also when nothing is left
sendToOCRUnchecked(response) ==
    IF ~response.ok THEN Throw
    ELSE IF ~Falsy(response.value) THEN StripNonDigits(response.value)
         ELSE Throw

sendToOCR(response) ==
    IF ~response.ok THEN Throw
    ELSE IF ~Falsy(response.value) /\ Trim(response.value) # ""
              /\ StripNonDigits(response.value) # ""
         THEN StripNonDigits(response.value)
         ELSE Throw

(***************************************************************************)
(* Spreadsheet rows: a row is a function from column names to strings.     *)
(***************************************************************************)
KeyName == "Customer name"

KeyFile == "filename"

KeyCCN == "CCN Actual"

KeyLuhn == "Luhn Test Actual"

\* row[k] in JavaScript: undefined when the key is absent
Get(row, k) == IF k \in DOMAIN row THEN row[k] ELSE Undefined

\* a write that rebuilds the row from the columns the page knows, instead of
\* spreading the old row
WriteActualKnownColumns(row, ccn, luhnResult) ==
    [k \in {KeyName, KeyFile, "CCN Expected", KeyCCN, KeyLuhn} |->
        IF k = KeyCCN THEN ccn ELSE IF k = KeyLuhn THEN luhnResult ELSE Get(row, k)]

\* { ...row, 'CCN Actual': ccn, 'Luhn Test Actual': luhnResult }
WriteActual(row, ccn, luhnResult) ==
    [k \in DOMAIN row \cup {KeyCCN, KeyLuhn} |->
        IF k = KeyCCN THEN ccn ELSE IF k = KeyLuhn THEN luhnResult ELSE row[k]]

(***************************************************************************)
(* Inputs of the model.                                                    *)
(***************************************************************************)
SeqToSet(seq) == {seq[i] : i \in 1..Len(seq)}

MaxRows == 2

MaxFiles == 2

\* customer names of the spreadsheet
CustomerNames == {"Al B", "ZED"}

\* image files that may lie in a customer folder, in localeCompare order;
\* the first two differ only by '_' versus '-'
FileUniverse == <<"a_1.jpg", "a-1.jpg", "b.jpg">>

\* filename cells of the spreadsheet
RowFilenames == {"A_1.JPG", "b.jpg"}

\* an actual card number left in the sheet by an earlier export
PriorCCN == "5105105105105100"

LegacyHeader ==
    {KeyName, KeyFile, "CCN Expected", KeyCCN, "Luhn test Expected", KeyLuhn, "Notes"}

NewHeader ==
    {KeyName, KeyFile, "CCN Expected", KeyCCN, "Luhn/BIN Expected", "Luhn/BIN Actual"}

Headers == {LegacyHeader, NewHeader}

\* parseCSV gives every row the header's keys
MakeRow(header, name, file, actual) ==
    [k \in header |->
        IF k = KeyName THEN name
        ELSE IF k = KeyFile THEN file
        ELSE IF k = KeyCCN THEN actual
        ELSE IF k \in {KeyLuhn, "Luhn/BIN Actual"} THEN (IF actual = "" THEN "" ELSE "Pass")
        ELSE IF k = "CCN Expected" THEN "n,a"
        ELSE "kept"]

\* name and filename cells of a row: the second customer has one filename
RowCells == {c \in CustomerNames \X RowFilenames : c[1] = "ZED" => c[2] = "b.jpg"}

RowsOf(header) ==
    {MakeRow(header, c[1], c[2], a) : c \in RowCells, a \in {"", PriorCCN}}

Sheets == UNION {UNION {[1..n -> RowsOf(h)] : n \in 1..MaxRows} : h \in Headers}

\* the sorted file lists a folder may hold
RECURSIVE SubLists(_)
SubLists(seq) ==
    IF Len(seq) = 0 THEN {<<>>}
    ELSE LET rest == SubLists(Tail(seq))
         IN rest \cup {<<Head(seq)>> \o r : r \in rest}

FileLists == {fl \in SubLists(FileUniverse) : Len(fl) >= 1 /\ Len(fl) <= MaxFiles}

\* names of the customer subfolders
FolderNames == {"AL_B_deadbeef01", "al", "zed"}

\* handleFolderUpload: one entry per subfolder, customerName parsed from the name
MakeFolder(folderName, files) ==
    [folderName |-> folderName, customerName |-> extractCustomerName(folderName),
     files |-> files]

\* folder trees after handleFolderUpload, sorted by customerName
FolderTrees ==
    {<<MakeFolder("AL_B_deadbeef01", fl)>> : fl \in FileLists}
    \cup {<<MakeFolder("al", <<"b.jpg">>), MakeFolder("AL_B_deadbeef01", <<"a_1.jpg", "b.jpg">>)>>}
    \cup {<<MakeFolder("AL_B_deadbeef01", <<"a_1.jpg">>), MakeFolder("zed", <<"b.jpg">>)>>}

\* what the OCR service may answer to one /credit_card request
OcrResponses ==
    {[ok |-> FALSE, value |-> Undefined],
     [ok |-> TRUE, value |-> ""],
     [ok |-> TRUE, value |-> "4532-0151-1283-0366"],
     [ok |-> TRUE, value |-> "1234"],
     [ok |-> TRUE, value |-> "N/A"]}

\* one entry of a /group_credit_cards answer
CardPair(front, back) == [front |-> front, back |-> back]

\* what /group_credit_cards may answer: no pair, a front alone, a back alone,
\* a front/back pair in either order, a pair that names the '-' spelling, a
\* pair followed by a second reference to one of its files, and two singles;
\* a name may be absent from the folder at hand
PairLists ==
    {<<>>,
     <<CardPair("a_1.jpg", "")>>,
     <<CardPair("b.jpg", "")>>,
     <<CardPair("", "b.jpg")>>,
     <<CardPair("a_1.jpg", "b.jpg")>>,
     <<CardPair("b.jpg", "a_1.jpg")>>,
     <<CardPair("a-1.jpg", "b.jpg")>>,
     <<CardPair("a_1.jpg", "b.jpg"), CardPair("b.jpg", "")>>,
     <<CardPair("a_1.jpg", ""), CardPair("b.jpg", "")>>}

(***************************************************************************)
(* State.                                                                  *)
(***************************************************************************)
VARIABLES
    csvRows,          \* useState: rows shown and exported
    folderStructure,  \* useState: uploaded folders
    status,           \* useState: 'idle' | 'processing' | 'complete' | 'error'
    processedCount,   \* useState
    currentFolder,    \* useState
    pc,               \* where processImages is suspended
    updatedRows,      \* processImages: const updatedRows = [...csvRows]
    customerGroups,   \* processImages: Map name -> row indices, in insertion order
    customerIndex,    \* processImages: let customerIndex
    processed,        \* processImages: let processed
    folder,           \* the folder matched for the current customer
    cardPairs,        \* pairs of the current customer
    pairIdx,          \* position of `for (const pair of cardPairs)`
    frontFile,        \* located front file of the current pair
    backFile,         \* located back file of the current pair
    matchFilenames,   \* file names of the outcome being produced
    unprocessedFiles, \* leftover files of the current customer
    fileIdx,          \* position of `for (const file of unprocessedFiles)`
    visited,          \* customers announced by setCurrentFolder, in order
    calls,            \* remote calls issued for the current customer
    results,          \* what the settled calls of the current customer gave
    runFolders,       \* folderStructure as captured by the running processImages
    outcomes,         \* outcomes produced for the current customer
    card,             \* luhn.ts: the digits a caller holds
    typed,            \* luhn.ts: the argument handed to luhn_validate
    verdict,          \* luhn.ts: what luhn_validate returned, once it has
    redaction,        \* imageUtils.ts: arguments of applyRedactionToSeparateImages
    separate,         \* imageUtils.ts: the box lists it built, once it has
    redacted,         \* imageUtils.ts: the polygons applyRedactionToImage masked
    nameText,         \* a folder name or customer name handed to a name helper
    returned,         \* what the name helper gave back, once it has
    redactedCards,    \* RedactionPipeline: useState
    allCards,         \* RedactionPipeline.processImages: const allCards
    cards,            \* processFolder: const cards
    cardIdx,          \* processFolder: let cardIdx
    folderIdx         \* RedactionPipeline.processImages: let i

vars ==
    <<csvRows, folderStructure, status, processedCount, currentFolder, pc, updatedRows,
      customerGroups, customerIndex, processed, folder, cardPairs, pairIdx, frontFile,
      backFile, matchFilenames, unprocessedFiles, fileIdx, visited, calls, results,
      runFolders, outcomes, card, typed, verdict, redaction, separate, redacted, nameText,
      returned, redactedCards, allCards, cards, cardIdx, folderIdx>>

\* state of the library calls, which processImages and the page handlers leave alone
luhnVars == <<card, typed, verdict>>

redactVars == <<redaction, separate, redacted>>

nameVars == <<nameText, returned>>

pipeVars == <<redactedCards, allCards, cards, cardIdx, folderIdx>>

libVars == <<luhnVars, redactVars, nameVars, pipeVars>>

uiVars == <<folderStructure, libVars>>

NoRedaction == [frontHeight |-> 0, backHeight |-> 0, pageHeight |-> 0, mergedImageHeight |-> 0,
                card_number_boxes |-> <<>>, cvc_boxes |-> <<>>]

luhnIdle ==
    /\ card = ""
    /\ typed = ""
    /\ verdict = <<>>

redactIdle ==
    /\ redaction = NoRedaction
    /\ separate = <<>>
    /\ redacted = <<>>

nameIdle ==
    /\ nameText = ""
    /\ returned = <<>>

pipeIdle ==
    /\ redactedCards = <<>>
    /\ allCards = <<>>
    /\ cards = <<>>
    /\ cardIdx = 0
    /\ folderIdx = 0

libIdle == luhnIdle /\ redactIdle /\ nameIdle /\ pipeIdle

pairVars == <<frontFile, backFile, matchFilenames>>

NullFolder == [folderName |-> Undefined, customerName |-> Undefined, files |-> <<>>]

Init ==
    /\ csvRows \in Sheets
    /\ folderStructure \in FolderTrees
    /\ status = "idle"
    /\ processedCount = 0
    /\ currentFolder = ""
    /\ pc = "idle"
    /\ updatedRows = <<>>
    /\ customerGroups = <<>>
    /\ customerIndex = 0
    /\ processed = 0
    /\ folder = NullFolder
    /\ cardPairs = <<>>
    /\ pairIdx = 0
    /\ frontFile = Undefined
    /\ backFile = Undefined
    /\ matchFilenames = <<>>
    /\ unprocessedFiles = <<>>
    /\ fileIdx = 0
    /\ visited = <<>>
    /\ calls = <<>>
    /\ results = <<>>
    /\ runFolders = <<>>
    /\ outcomes = <<>>
    /\ libIdle

(***************************************************************************)
(* Pure helpers of processImages.                                          *)
(***************************************************************************)
\* The normalizers, sendToOCR and luhn_validate tabulated over the strings of
\* the model, so that a step looks a value up instead of recomputing it.
FileNameStrings == SeqToSet(FileUniverse) \cup RowFilenames \cup {"", Undefined}

NormTable == [n \in FileNameStrings |-> normalizeForComparison(n)]

Norm(n) == NormTable[n]

\* subfolder names of an upload in the localeCompare order of the customer
\* names parsed from them: a hash after an underscore, punctuation only, and
\* three that name a customer
MatchFolderNames == <<"_deadbeef01", "...", "al", "AL_B_deadbeef01", "zed">>

\* 'Customer name' cells: two that name a customer, an empty and a missing
\* cell, punctuation only, and two customers without folder
MatchCustomers == CustomerNames \cup {"", Undefined, " . ", "Nobody", "Q"}

CustomerStrings ==
    CustomerNames \cup {extractCustomerName(n) : n \in FolderNames} \cup {"", Undefined}
    \cup {extractCustomerName(MatchFolderNames[i]) : i \in 1..Len(MatchFolderNames)}
    \cup MatchCustomers

CustomerNormTable == [n \in CustomerStrings |-> normalizeCustomerName(n)]

OcrTable == [r \in OcrResponses |-> sendToOCR(r)]

CardStrings ==
    {OcrTable[r] : r \in OcrResponses} \cup {"NOT_FOUND", "FOLDER_NOT_FOUND", "PROCESSING_ERROR"}

LuhnTable == [c \in CardStrings |-> luhn_validate(c)]

Min(a, b) == IF a <= b THEN a ELSE b

\* customerGroups: Map<name, index[]> filled by csvRows.forEach, iterated in
\* insertion order (order of first appearance)
RECURSIVE GroupNames(_, _, _)
GroupNames(rows, i, seen) ==
    IF i > Len(rows) THEN <<>>
    ELSE LET name == Get(rows[i], KeyName)
         IN IF name \in seen THEN GroupNames(rows, i + 1, seen)
            ELSE <<name>> \o GroupNames(rows, i + 1, seen \cup {name})

GroupsOf(rows) ==
    LET names == GroupNames(rows, 1, {})
    IN [g \in 1..Len(names) |->
          [name |-> names[g],
           rowIndices |-> SelectSeq([i \in 1..Len(rows) |-> i],
                                    LAMBDA i : Get(rows[i], KeyName) = names[g])]]

FolderMatches(f, customerName) ==
    LET normalizedCustomer == CustomerNormTable[customerName]
        normalizedFolder == CustomerNormTable[f.customerName]
    IN \/ normalizedFolder = normalizedCustomer
       \/ Includes(normalizedFolder, normalizedCustomer)
       \/ Includes(normalizedCustomer, normalizedFolder)

\* the first folder, in folderStructure order, that matches exactly or by containment
RECURSIVE FindFrom(_, _, _)
FindFrom(folders, customerName, i) ==
    IF i > Len(folders) THEN NullFolder
    ELSE IF FolderMatches(folders[i], customerName) THEN folders[i]
         ELSE FindFrom(folders, customerName, i + 1)

findMatchingFolder(folders, customerName) == FindFrom(folders, customerName, 1)

\* folder.files.find(f => normalize(f.name) === normalize(name) || f.name === name)
RECURSIVE FindFile(_, _, _)
FindFile(files, name, i) ==
    IF i > Len(files) THEN Undefined
    ELSE IF Norm(files[i]) = Norm(name) \/ files[i] = name
         THEN files[i]
         ELSE FindFile(files, name, i + 1)

LuhnResult(ccn) == IF Falsy(ccn) THEN "Fail" ELSE IF LuhnTable[ccn] THEN "Pass" ELSE "Fail"

RowEmpty(rows, idx) == Falsy(Get(rows[idx], KeyCCN))

WriteRows(rows, idxSet, ccn, luhnResult) ==
    [i \in 1..Len(rows) |-> IF i \in idxSet THEN WriteActual(rows[i], ccn, luhnResult) ELSE rows[i]]

\* rows of the customer whose normalized filename equals a normalized name of `names`
MatchingRows(rows, rowIndices, names) ==
    {idx \in SeqToSet(rowIndices) :
        \E n \in names : Norm(n) = Norm(Get(rows[idx], KeyFile))}

\* single image: every matching row, else rowIndices[0]
SingleTargets(rows, rowIndices, filename) ==
    LET m == MatchingRows(rows, rowIndices, {filename})
    IN IF m # {} THEN m ELSE {rowIndices[1]}

\* multi image fallback: the first empty rows in rowIndices order, one for a
\* single file, up to two for a pair
FallbackRows(rows, rowIndices, names) ==
    LET empty == SelectSeq(rowIndices, LAMBDA idx : RowEmpty(rows, idx))
        cap == IF Len(names) = 1 THEN 1 ELSE 2
    IN SeqToSet(SubSeq(empty, 1, Min(cap, Len(empty))))

\* a write-back that stops at the first matching row
PairTargetsFirstMatch(rows, rowIndices, names) ==
    LET m == SelectSeq(rowIndices,
                       LAMBDA idx : idx \in MatchingRows(rows, rowIndices, SeqToSet(names)))
    IN IF Len(m) > 0 THEN {m[1]} ELSE FallbackRows(rows, rowIndices, names)

\* multi image: every matching row, else the fallback rows
PairTargets(rows, rowIndices, names) ==
    LET m == MatchingRows(rows, rowIndices, SeqToSet(names))
    IN IF m # {} THEN m ELSE FallbackRows(rows, rowIndices, names)

\* a leftover pass without the `!updatedRows[idx]['CCN Actual']` test
LeftoverTargetsAnyRow(rows, rowIndices, filename) ==
    MatchingRows(rows, rowIndices, {filename})

\* leftover pass: matching rows that are still empty
LeftoverTargets(rows, rowIndices, filename) ==
    {idx \in MatchingRows(rows, rowIndices, {filename}) : RowEmpty(rows, idx)}

\* rows marked NOT_FOUND when a pair's file is not located
MissingTargets(rows, rowIndices, pair) ==
    MatchingRows(rows, rowIndices, {pair.front, pair.back} \ {""})

\* a sentinel pass without the `!updatedRows[idx]['CCN Actual']` test
UnfilledRowsAnyRow(rows, rowIndices) == SeqToSet(rowIndices)

\* rows given a sentinel when the customer has no folder or its processing threw
UnfilledRows(rows, rowIndices) == {idx \in SeqToSet(rowIndices) : RowEmpty(rows, idx)}

\* cardPairs after the grouping try/catch and the zero-pairs check
SinglesOf(files) == [i \in 1..Len(files) |-> [front |-> files[i], back |-> ""]]

\* files named by no pair (exact names)
UnprocessedOf(files, pairs) ==
    LET processedFiles == ({pairs[i].front : i \in 1..Len(pairs)}
                           \cup {pairs[i].back : i \in 1..Len(pairs)}) \ {""}
    IN SelectSeq(files, LAMBDA f : f \notin processedFiles)

Group == customerGroups[customerIndex]

Pair == cardPairs[pairIdx]

OcrCall(files) == [kind |-> "ocr", files |-> files]

Outcome(ccn, names, rows, fallback, pass) ==
    [ccn |-> ccn, luhn |-> LuhnResult(ccn), files |-> names, rows |-> rows,
     fallback |-> fallback, pass |-> pass]

(***************************************************************************)
(* processImages, one action per stretch of code between two awaits.       *)
(***************************************************************************)
NotFound == "NOT_FOUND"

FolderNotFound == "FOLDER_NOT_FOUND"

ProcessingError == "PROCESSING_ERROR"

\* the click on "Start OCR Processing" up to the customer loop
Start ==
    /\ pc = "idle"
    /\ status # "processing"
    /\ Len(csvRows) # 0
    /\ Len(folderStructure) # 0
    /\ status' = "processing"
    /\ processedCount' = 0
    /\ updatedRows' = csvRows
    /\ customerGroups' = GroupsOf(csvRows)
    /\ processed' = 0
    /\ customerIndex' = 0
    /\ pc' = "loop"
    /\ visited' = <<>>
    /\ runFolders' = folderStructure
    /\ UNCHANGED <<csvRows, uiVars, currentFolder, folder, cardPairs, pairIdx, pairVars,
                   unprocessedFiles, fileIdx, calls, results, outcomes>>

\* head of `for (const [customerName, rowIndices] of customerGroups)`
EnterCustomer(f) ==
    /\ pc = "loop"
    /\ customerIndex < Len(customerGroups)
    /\ customerIndex' = customerIndex + 1
    /\ currentFolder' = customerGroups[customerIndex + 1].name
    /\ visited' = Append(visited, customerGroups[customerIndex + 1].name)
    /\ f = findMatchingFolder(runFolders, customerGroups[customerIndex + 1].name)
    /\ folder' = f
    /\ outcomes' = <<>>
    /\ results' = <<>>
    /\ cardPairs' = <<>>
    /\ pairIdx' = 0
    /\ frontFile' = Undefined
    /\ backFile' = Undefined
    /\ matchFilenames' = <<>>
    /\ unprocessedFiles' = <<>>
    /\ fileIdx' = 0

\* a no-folder branch that only counts the rows and marks none
CustomerNoFolderUnmarked ==
    \E f \in SeqToSet(runFolders) \cup {NullFolder} :
        /\ EnterCustomer(f)
        /\ f = NullFolder \/ Len(f.files) = 0
        /\ processed' = processed + Len(customerGroups[customerIndex + 1].rowIndices)
        /\ processedCount' = processed + Len(customerGroups[customerIndex + 1].rowIndices)
        /\ calls' = <<>>
        /\ pc' = "loop"
        /\ UNCHANGED <<csvRows, uiVars, runFolders, status, customerGroups, updatedRows>>

\* no folder, or a folder without images: FOLDER_NOT_FOUND on the unfilled rows
CustomerNoFolder ==
    \E f \in SeqToSet(runFolders) \cup {NullFolder} :
        /\ EnterCustomer(f)
        /\ f = NullFolder \/ Len(f.files) = 0
        /\ LET rowIndices == customerGroups[customerIndex + 1].rowIndices
               targets == UnfilledRows(updatedRows, rowIndices)
           IN /\ updatedRows' = WriteRows(updatedRows, targets, FolderNotFound, "Fail")
              /\ processed' = processed + Len(rowIndices)
              /\ processedCount' = processed + Len(rowIndices)
        /\ calls' = <<>>
        /\ pc' = "loop"
        /\ UNCHANGED <<csvRows, uiVars, runFolders, status, customerGroups>>

\* exactly one image: it is sent to sendToOCR
CustomerSingleImage ==
    \E f \in SeqToSet(runFolders) :
        /\ EnterCustomer(f)
        /\ Len(f.files) = 1
        /\ calls' = <<OcrCall(<<f.files[1]>>)>>
        /\ pc' = "awaitSingleOcr"
        /\ UNCHANGED <<csvRows, uiVars, runFolders, status, processedCount, updatedRows,
                       customerGroups, processed>>

\* two or more images: categorizeImages is called
CustomerMultiImage ==
    \E f \in SeqToSet(runFolders) :
        /\ EnterCustomer(f)
        /\ Len(f.files) > 1
        /\ calls' = <<[kind |-> "categorize", files |-> f.files]>>
        /\ pc' = "awaitCategorize"
        /\ UNCHANGED <<csvRows, uiVars, runFolders, status, processedCount, updatedRows,
                       customerGroups, processed>>

\* `setCsvRows([...updatedRows]); processed += rowIndices.length` closing the try block
\* an end of the customer that publishes the rows and counts nothing
FinishCustomerUncounted(rows) ==
    /\ csvRows' = rows
    /\ UNCHANGED <<processed, processedCount>>
    /\ pc' = "loop"

FinishCustomer(rows) ==
    /\ csvRows' = rows
    /\ processed' = processed + Len(Group.rowIndices)
    /\ processedCount' = processed + Len(Group.rowIndices)
    /\ pc' = "loop"

\* the single image's sendToOCR settles; write-back by filename, else first row
SingleOcrSettled ==
    /\ pc = "awaitSingleOcr"
    /\ \E response \in OcrResponses :
        LET r == OcrTable[response]
            ccn == IF r = Throw THEN NotFound ELSE r
            filename == folder.files[1]
            matched == MatchingRows(updatedRows, Group.rowIndices, {filename})
            targets == SingleTargets(updatedRows, Group.rowIndices, filename)
            rows == WriteRows(updatedRows, targets, ccn, LuhnResult(ccn))
        IN /\ updatedRows' = rows
           /\ outcomes' = Append(outcomes, Outcome(ccn, <<filename>>, targets, matched = {}, "single"))
           /\ results' = Append(results, r)
           /\ FinishCustomer(rows)
    /\ UNCHANGED <<uiVars, runFolders, status, currentFolder, customerGroups, customerIndex,
                   folder, cardPairs, pairIdx, pairVars, unprocessedFiles, fileIdx, visited,
                   calls>>

\* categorizeImages settles: on success groupCreditCards is called, on failure
\* every file becomes its own pair
CategorizeSettled ==
    /\ pc = "awaitCategorize"
    /\ \E ok \in BOOLEAN :
        IF ok
        THEN /\ calls' = Append(calls, [kind |-> "group", files |-> folder.files])
             /\ results' = Append(results, "ok")
             /\ pc' = "awaitGroup"
             /\ UNCHANGED <<cardPairs, pairIdx>>
        ELSE /\ cardPairs' = SinglesOf(folder.files)
             /\ results' = Append(results, Throw)
             /\ pairIdx' = 1
             /\ pc' = "pairs"
             /\ UNCHANGED calls
    /\ UNCHANGED <<csvRows, uiVars, runFolders, status, processedCount, currentFolder,
                   updatedRows, customerGroups, customerIndex, processed, folder, pairVars,
                   unprocessedFiles, fileIdx, visited, outcomes>>

\* cardPairs after groupCreditCards: the answer, or singles when it failed or is empty
PairsAfterGrouping(files, ok, answer) ==
    IF ~ok THEN SinglesOf(files)
    ELSE IF Len(answer) = 0 THEN SinglesOf(files)
    ELSE answer

GroupSettled ==
    /\ pc = "awaitGroup"
    /\ \E ok \in BOOLEAN : \E answer \in PairLists :
        /\ ~ok => answer = <<>>
        /\ cardPairs' = PairsAfterGrouping(folder.files, ok, answer)
        /\ results' = Append(results, IF ok THEN "ok" ELSE Throw)
    /\ pairIdx' = 1
    /\ pc' = "pairs"
    /\ UNCHANGED <<csvRows, uiVars, runFolders, status, processedCount, currentFolder,
                   updatedRows, customerGroups, customerIndex, processed, folder, pairVars,
                   unprocessedFiles, fileIdx, visited, calls, outcomes>>

loopFrame ==
    <<csvRows, uiVars, runFolders, status, processedCount, currentFolder, customerGroups, customerIndex,
      processed, folder, cardPairs, unprocessedFiles, fileIdx, visited>>

\* a front/back pair whose two files are located: they are composited
PairLocated ==
    /\ pc = "pairs"
    /\ pairIdx <= Len(cardPairs)
    /\ Pair.front # "" /\ Pair.back # ""
    /\ LET ff == FindFile(folder.files, Pair.front, 1)
           bf == FindFile(folder.files, Pair.back, 1)
       IN /\ ff # Undefined /\ bf # Undefined
          /\ frontFile' = ff
          /\ backFile' = bf
    /\ pc' = "awaitCombine"
    /\ UNCHANGED <<loopFrame, updatedRows, pairIdx, matchFilenames, calls, results, outcomes>>

\* a front/back pair with a file that is not located: NOT_FOUND on the rows
\* named by the pair, then `continue`
PairMissing ==
    /\ pc = "pairs"
    /\ pairIdx <= Len(cardPairs)
    /\ Pair.front # "" /\ Pair.back # ""
    /\ LET ff == FindFile(folder.files, Pair.front, 1)
           bf == FindFile(folder.files, Pair.back, 1)
           targets == MissingTargets(updatedRows, Group.rowIndices, Pair)
       IN /\ ff = Undefined \/ bf = Undefined
          /\ frontFile' = ff
          /\ backFile' = bf
          /\ updatedRows' = WriteRows(updatedRows, targets, NotFound, "Fail")
    /\ pairIdx' = pairIdx + 1
    /\ UNCHANGED <<loopFrame, pc, matchFilenames, calls, results, outcomes>>

\* a one-sided pair whose file is located: it is sent to sendToOCR
SingleLocated ==
    /\ pc = "pairs"
    /\ pairIdx <= Len(cardPairs)
    /\ Pair.front = "" \/ Pair.back = ""
    /\ LET singleFileName == IF Pair.front # "" THEN Pair.front ELSE Pair.back
           singleFile == FindFile(folder.files, singleFileName, 1)
       IN /\ singleFile # Undefined
          /\ matchFilenames' = <<singleFile>>
          /\ calls' = Append(calls, OcrCall(<<singleFile>>))
    /\ frontFile' = Undefined
    /\ backFile' = Undefined
    /\ pc' = "awaitOcr"
    /\ UNCHANGED <<loopFrame, updatedRows, pairIdx, results, outcomes>>

\* a one-sided pair whose file is not located: NOT_FOUND on the rows named by it
SingleMissing ==
    /\ pc = "pairs"
    /\ pairIdx <= Len(cardPairs)
    /\ Pair.front = "" \/ Pair.back = ""
    /\ LET singleFileName == IF Pair.front # "" THEN Pair.front ELSE Pair.back
           targets == MatchingRows(updatedRows, Group.rowIndices, {singleFileName})
       IN /\ FindFile(folder.files, singleFileName, 1) = Undefined
          /\ updatedRows' = WriteRows(updatedRows, targets, NotFound, "Fail")
    /\ frontFile' = Undefined
    /\ backFile' = Undefined
    /\ pairIdx' = pairIdx + 1
    /\ UNCHANGED <<loopFrame, pc, matchFilenames, calls, results, outcomes>>

\* a composite step that also sends the front image without waiting
CombineResolvedRacing ==
    /\ pc = "awaitCombine"
    /\ matchFilenames' = <<frontFile, backFile>>
    /\ calls' = calls \o <<OcrCall(<<frontFile, backFile>>), OcrCall(<<frontFile>>)>>
    /\ pc' = "awaitOcr"
    /\ UNCHANGED <<loopFrame, updatedRows, pairIdx, frontFile, backFile, results, outcomes>>

\* combineImagesVertically resolves: the composite is sent to sendToOCR
CombineResolved ==
    /\ pc = "awaitCombine"
    /\ matchFilenames' = <<frontFile, backFile>>
    /\ calls' = Append(calls, OcrCall(<<frontFile, backFile>>))
    /\ pc' = "awaitOcr"
    /\ UNCHANGED <<loopFrame, updatedRows, pairIdx, frontFile, backFile, results, outcomes>>

\* a rejection that no per-customer catch block stops: the run ends there
CombineRejectedEscapes ==
    /\ pc = "awaitCombine"
    /\ pc' = "done"
    /\ UNCHANGED <<csvRows, uiVars, status, processedCount, currentFolder, updatedRows,
                   customerGroups, customerIndex, processed, folder, cardPairs, pairIdx,
                   pairVars, unprocessedFiles, fileIdx, visited, calls, results, runFolders,
                   outcomes>>

\* combineImagesVertically rejects (an image does not decode): the customer's
\* catch block puts PROCESSING_ERROR on the unfilled rows
CombineRejected ==
    /\ pc = "awaitCombine"
    /\ LET targets == UnfilledRows(updatedRows, Group.rowIndices)
       IN /\ updatedRows' = WriteRows(updatedRows, targets, ProcessingError, "Fail")
    /\ processed' = processed + Len(Group.rowIndices)
    /\ processedCount' = processed + Len(Group.rowIndices)
    /\ pc' = "loop"
    /\ UNCHANGED <<csvRows, uiVars, runFolders, status, currentFolder, customerGroups,
                   customerIndex, folder, cardPairs, pairIdx, pairVars, unprocessedFiles,
                   fileIdx, visited, calls, results, outcomes>>

\* "Update CSV rows matching these filenames", the fallback to empty rows, and
\* the step to the next pair
WriteBack(ccn) ==
    LET matched == MatchingRows(updatedRows, Group.rowIndices, SeqToSet(matchFilenames))
        targets == PairTargets(updatedRows, Group.rowIndices, matchFilenames)
    IN /\ updatedRows' = WriteRows(updatedRows, targets, ccn, LuhnResult(ccn))
       /\ outcomes' = Append(outcomes, Outcome(ccn, matchFilenames, targets, matched = {}, "pair"))
       /\ pairIdx' = pairIdx + 1
       /\ pc' = "pairs"
       /\ UNCHANGED calls

\* sendToOCR of the pair's image settles
OcrSettled ==
    /\ pc = "awaitOcr"
    /\ \E response \in OcrResponses :
        LET r == OcrTable[response]
        IN /\ results' = Append(results, r)
           /\ IF r # Throw THEN WriteBack(r)
              ELSE IF Pair.front # "" /\ Pair.back # "" /\ frontFile # Undefined
                      /\ backFile # Undefined
                   THEN /\ calls' = Append(calls, OcrCall(<<frontFile>>))
                        /\ pc' = "awaitFrontOcr"
                        /\ UNCHANGED <<updatedRows, outcomes, pairIdx>>
                   ELSE WriteBack(NotFound)
    /\ UNCHANGED <<loopFrame, pairVars>>

\* a front retry that goes on to the back image whatever the front gave
FrontOcrSettledThenBack ==
    /\ pc = "awaitFrontOcr"
    /\ \E response \in OcrResponses :
        /\ results' = Append(results, OcrTable[response])
        /\ calls' = Append(calls, OcrCall(<<backFile>>))
        /\ pc' = "awaitBackOcr"
        /\ UNCHANGED <<updatedRows, outcomes, pairIdx>>
    /\ UNCHANGED <<loopFrame, pairVars>>

\* the retry with the front image alone settles
FrontOcrSettled ==
    /\ pc = "awaitFrontOcr"
    /\ \E response \in OcrResponses :
        LET frontCCN == OcrTable[response]
        IN /\ results' = Append(results, frontCCN)
           /\ IF frontCCN # Throw /\ ~Falsy(frontCCN) /\ Trim(frontCCN) # ""
              THEN WriteBack(frontCCN)
              ELSE /\ calls' = Append(calls, OcrCall(<<backFile>>))
                   /\ pc' = "awaitBackOcr"
                   /\ UNCHANGED <<updatedRows, outcomes, pairIdx>>
    /\ UNCHANGED <<loopFrame, pairVars>>

\* the retry with the back image alone settles
BackOcrSettled ==
    /\ pc = "awaitBackOcr"
    /\ \E response \in OcrResponses :
        LET backCCN == OcrTable[response]
        IN /\ results' = Append(results, backCCN)
           /\ IF backCCN # Throw /\ ~Falsy(backCCN) /\ Trim(backCCN) # ""
              THEN WriteBack(backCCN)
              ELSE WriteBack(NotFound)
    /\ UNCHANGED <<loopFrame, pairVars>>

tailFrame ==
    <<uiVars, runFolders, status, currentFolder, customerGroups, customerIndex, folder, cardPairs,
      pairIdx, pairVars, visited>>

\* after the pairs: files named by no pair are sent one by one
LeftoverStart ==
    /\ pc = "pairs"
    /\ pairIdx > Len(cardPairs)
    /\ LET files == UnprocessedOf(folder.files, cardPairs)
       IN /\ Len(files) > 0
          /\ unprocessedFiles' = files
          /\ fileIdx' = 1
          /\ calls' = Append(calls, OcrCall(<<files[1]>>))
    /\ pc' = "awaitLeftoverOcr"
    /\ UNCHANGED <<tailFrame, csvRows, processedCount, updatedRows, processed, results,
                   outcomes>>

\* after the pairs, nothing left over: the customer is done
CustomerDone ==
    /\ pc = "pairs"
    /\ pairIdx > Len(cardPairs)
    /\ Len(UnprocessedOf(folder.files, cardPairs)) = 0
    /\ FinishCustomer(updatedRows)
    /\ UNCHANGED <<tailFrame, updatedRows, unprocessedFiles, fileIdx, calls, results,
                   outcomes>>

\* a leftover pass whose failed call reaches the customer's catch block
LeftoverOcrSettledRethrows ==
    /\ pc = "awaitLeftoverOcr"
    /\ \E response \in OcrResponses :
        LET r == OcrTable[response]
            file == unprocessedFiles[fileIdx]
            targets == IF r = Throw THEN UnfilledRows(updatedRows, Group.rowIndices)
                       ELSE LeftoverTargets(updatedRows, Group.rowIndices, file)
            ccn == IF r = Throw THEN ProcessingError ELSE r
            rows == WriteRows(updatedRows, targets, ccn, LuhnResult(ccn))
        IN /\ updatedRows' = rows
           /\ outcomes' = Append(outcomes, Outcome(ccn, <<file>>, targets, FALSE, "leftover"))
           /\ results' = Append(results, r)
           /\ IF fileIdx < Len(unprocessedFiles) /\ r # Throw
              THEN /\ fileIdx' = fileIdx + 1
                   /\ calls' = Append(calls, OcrCall(<<unprocessedFiles[fileIdx + 1]>>))
                   /\ UNCHANGED <<pc, csvRows, processed, processedCount>>
              ELSE /\ FinishCustomer(rows)
                   /\ UNCHANGED <<fileIdx, calls>>
    /\ UNCHANGED <<tailFrame, unprocessedFiles>>

\* sendToOCR of a leftover file settles: matching empty rows are written
LeftoverOcrSettled ==
    /\ pc = "awaitLeftoverOcr"
    /\ \E response \in OcrResponses :
        LET r == OcrTable[response]
            ccn == IF r = Throw THEN NotFound ELSE r
            file == unprocessedFiles[fileIdx]
            targets == LeftoverTargets(updatedRows, Group.rowIndices, file)
            rows == WriteRows(updatedRows, targets, ccn, LuhnResult(ccn))
        IN /\ updatedRows' = rows
           /\ outcomes' = Append(outcomes, Outcome(ccn, <<file>>, targets, FALSE, "leftover"))
           /\ results' = Append(results, r)
           /\ IF fileIdx < Len(unprocessedFiles)
              THEN /\ fileIdx' = fileIdx + 1
                   /\ calls' = Append(calls, OcrCall(<<unprocessedFiles[fileIdx + 1]>>))
                   /\ UNCHANGED <<pc, csvRows, processed, processedCount>>
              ELSE /\ FinishCustomer(rows)
                   /\ UNCHANGED <<fileIdx, calls>>
    /\ UNCHANGED <<tailFrame, unprocessedFiles>>

\* after the last customer: setCsvRows(updatedRows); setStatus('complete')
Finish ==
    /\ pc = "loop"
    /\ customerIndex = Len(customerGroups)
    /\ csvRows' = updatedRows
    /\ status' = "complete"
    /\ currentFolder' = ""
    /\ pc' = "done"
    /\ UNCHANGED <<uiVars, runFolders, processedCount, updatedRows, customerGroups,
                   customerIndex, processed, folder, cardPairs, pairIdx, pairVars,
                   unprocessedFiles, fileIdx, visited, calls, results, outcomes>>

Next ==
    \/ Start
    \/ CustomerNoFolder
    \/ CustomerSingleImage
    \/ CustomerMultiImage
    \/ SingleOcrSettled
    \/ CategorizeSettled
    \/ GroupSettled
    \/ PairLocated
    \/ PairMissing
    \/ SingleLocated
    \/ SingleMissing
    \/ CombineResolved
    \/ CombineRejected
    \/ OcrSettled
    \/ FrontOcrSettled
    \/ BackOcrSettled
    \/ LeftoverStart
    \/ CustomerDone
    \/ LeftoverOcrSettled
    \/ Finish

Spec == Init /\ [][Next]_vars

\* every await of the run settles and the continuation after it is run: a
\* step of the run that can be taken is taken
FairSpec == Spec /\ WF_vars(Next)

(***************************************************************************)
(* csvUtils: a CSV text is the sequence of its lines.                      *)
(***************************************************************************)
Quote == "\""

\* parseCSVLine toggles inQuotes at every quote character (a doubled quote
\* inside quotes leaves it as it is), so a comma ends a cell exactly when the
\* number of quote characters before it is even
IsSeparator(line, i) ==
    /\ Chr(line, i) = ","
    /\ Cardinality({j \in 1..(i - 1) : Chr(line, j) = Quote}) % 2 = 0

\* the stretches of the line between two separating commas
RECURSIVE SplitCells(_, _)
SplitCells(line, start) ==
    LET seps == {i \in start..Len(line) : IsSeparator(line, i)}
    IN IF seps = {} THEN <<SubSeq(line, start, Len(line))>>
       ELSE LET m == CHOOSE i \in seps : \A j \in seps : i <= j
            IN <<SubSeq(line, start, m - 1)>> \o SplitCells(line, m + 1)

\* parseCSVLine: the loop over the characters of one cell
RECURSIVE ParseCellFrom(_, _, _, _)
ParseCellFrom(cell, i, current, inQuotes) ==
    IF i > Len(cell) THEN Trim(current)
    ELSE LET char == Chr(cell, i)
         IN IF char = Quote
            THEN IF inQuotes /\ i + 1 <= Len(cell) /\ Chr(cell, i + 1) = Quote
                 THEN ParseCellFrom(cell, i + 2, current \o Quote, inQuotes)
                 ELSE ParseCellFrom(cell, i + 1, current, ~inQuotes)
            ELSE ParseCellFrom(cell, i + 1, current \o char, inQuotes)

parseCSVLine(line) ==
    LET cells == SplitCells(line, 1)
    IN [k \in 1..Len(cells) |-> ParseCellFrom(cells[k], 1, "", FALSE)]

\* headers.forEach((header, index) => row[header] = values[index] || ''):
\* the last column with a given header wins
RowOfValues(headers, values) ==
    [h \in SeqToSet(headers) |->
        LET index == CHOOSE k \in 1..Len(headers) :
                        /\ headers[k] = h
                        /\ \A j \in (k + 1)..Len(headers) : headers[j] # h
        IN IF index <= Len(values) /\ values[index] # "" THEN values[index] ELSE ""]

parseCSV(lines) ==
    IF Len(lines) < 2 THEN <<>>
    ELSE LET headers == parseCSVLine(lines[1])
         IN [i \in 1..(Len(lines) - 1) |-> RowOfValues(headers, parseCSVLine(lines[i + 1]))]

RECURSIVE DoubleQuotes(_)
DoubleQuotes(val) ==
    IF val = "" THEN ""
    ELSE IF Chr(val, 1) = Quote THEN Quote \o Quote \o DoubleQuotes(Rest(val))
         ELSE Chr(val, 1) \o DoubleQuotes(Rest(val))

escapeValue(val) ==
    IF Includes(val, ",") \/ Includes(val, Quote) \/ Includes(val, "\n")
    THEN Quote \o DoubleQuotes(val) \o Quote
    ELSE val

RECURSIVE JoinComma(_)
JoinComma(parts) ==
    IF Len(parts) = 0 THEN ""
    ELSE IF Len(parts) = 1 THEN parts[1]
         ELSE parts[1] \o "," \o JoinComma(Tail(parts))

\* the columns generateCSV writes, chosen by the first row
ExportHeaders(rows) ==
    LET hasNewFormat ==
            \/ Get(rows[1], "Luhn/BIN Expected") # Undefined
            \/ Get(rows[1], "Luhn/BIN Actual") # Undefined
    IN IF hasNewFormat
       THEN <<KeyName, KeyFile, "CCN Expected", KeyCCN, "Luhn/BIN Expected", "Luhn/BIN Actual">>
       ELSE <<KeyName, KeyFile, "CCN Expected", KeyCCN, "Luhn test Expected", KeyLuhn>>

generateCSV(rows) ==
    IF Len(rows) = 0 THEN <<>>
    ELSE LET headers == ExportHeaders(rows)
             cell(row, h) == IF Falsy(Get(row, h)) THEN "" ELSE Get(row, h)
             headerLine == JoinComma([k \in 1..Len(headers) |-> escapeValue(headers[k])])
             dataLines ==
                 [i \in 1..Len(rows) |->
                     JoinComma([k \in 1..Len(headers) |-> escapeValue(cell(rows[i], headers[k]))])]
         IN <<headerLine>> \o dataLines

\* getLuhnBinActualColumn
getLuhnBinActualColumn(row) ==
    IF Get(row, "Luhn/BIN Actual") # Undefined THEN "Luhn/BIN Actual" ELSE KeyLuhn

(***************************************************************************)
(* The page's other handlers, which may run while processImages is         *)
(* suspended.  The model follows one run of processImages: Start is taken  *)
(* once.                                                                   *)
(***************************************************************************)
\* spreadsheets the user may pick: the legacy layout with an extra column, the
\* renamed layout, and a file with nothing but the header line
UploadTexts ==
    {<<"Customer name,filename,CCN Expected,CCN Actual,Luhn test Expected,Luhn Test Actual,Notes",
       "Al B,A_1.JPG,\"n,a\",,kept,,kept",
       "ZED,b.jpg,\"n,a\",5105105105105100,kept,Pass,kept">>,
     <<"Customer name,filename,CCN Expected,CCN Actual,Luhn/BIN Expected,Luhn/BIN Actual",
       "Al B,b.jpg,\"n,a\",,kept,">>,
     <<"Customer name,filename,CCN Expected,CCN Actual,Luhn test Expected,Luhn Test Actual">>}

ParsedTable == [text \in UploadTexts |-> parseCSV(text)]

\* handleCSVUpload after `await file.text()`; it is not tied to `status`
handleCSVUpload ==
    /\ \E text \in UploadTexts : csvRows' = ParsedTable[text]
    /\ status' = "idle"
    /\ processedCount' = 0
    /\ UNCHANGED <<uiVars, currentFolder, pc, updatedRows, customerGroups,
                   customerIndex, processed, folder, cardPairs, pairIdx, pairVars,
                   unprocessedFiles, fileIdx, visited, calls, results, runFolders, outcomes>>

\* handleFolderUpload: the folder input is not tied to `status` either
handleFolderUpload ==
    /\ folderStructure' \in FolderTrees
    /\ UNCHANGED <<csvRows, status, processedCount, currentFolder, pc, updatedRows,
                   customerGroups, customerIndex, processed, folder, cardPairs, pairIdx,
                   pairVars, unprocessedFiles, fileIdx, visited, calls, results, runFolders,
                   outcomes, libVars>>

\* handleReset: the button is disabled while status is 'processing'
handleReset ==
    /\ status # "processing"
    /\ csvRows' = <<>>
    /\ folderStructure' = <<>>
    /\ processedCount' = 0
    /\ currentFolder' = ""
    /\ status' = "idle"
    /\ UNCHANGED <<pc, updatedRows, customerGroups, customerIndex, processed, folder,
                   cardPairs, pairIdx, pairVars, unprocessedFiles, fileIdx, visited, calls,
                   results, runFolders, outcomes, libVars>>

\* the page as constructed: no spreadsheet, no folders
pageIdle ==
    /\ csvRows = <<>>
    /\ folderStructure = <<>>
    /\ status = "idle"
    /\ processedCount = 0
    /\ currentFolder = ""
    /\ pc = "idle"
    /\ updatedRows = <<>>
    /\ customerGroups = <<>>
    /\ customerIndex = 0
    /\ processed = 0
    /\ folder = NullFolder
    /\ cardPairs = <<>>
    /\ pairIdx = 0
    /\ frontFile = Undefined
    /\ backFile = Undefined
    /\ matchFilenames = <<>>
    /\ unprocessedFiles = <<>>
    /\ fileIdx = 0
    /\ visited = <<>>
    /\ calls = <<>>
    /\ results = <<>>
    /\ runFolders = <<>>
    /\ outcomes = <<>>

InitUI == pageIdle /\ libIdle

NextUI ==
    \/ Next
    \/ handleCSVUpload
    \/ handleFolderUpload
    \/ handleReset

SpecUI == InitUI /\ [][NextUI]_vars

(***************************************************************************)
(* lib/luhn.ts as its callers use it: a caller holds the digits of a card  *)
(* number, the text it passes may carry separators or letters between      *)
(* them, and luhn_validate answers for that text.                          *)
(***************************************************************************)
MaxInsert == 1

\* card numbers of every network and length class of validateTypeAndLength,
\* a number with a wrong check digit, numbers of no network and the empty text
CardNumbers ==
    {"", "1234", "4532015112830366", "4532015112830367", "4000000000006",
     "378282246310005", "5105105105105100", "2221000000000009", "6011111111111117",
     "6221260000000000", "62212600000000001", "62000000000000000",
     "3530111333300000", "30569309025904", "6759649826438453", "580000000001",
     "45320151128303660"}

NonDigitChars == {"-", " ", "x"}

InsertAt(s, p, c) == SubSeq(s, 1, p) \o c \o SubSeq(s, p + 1, Len(s))

InitLuhn ==
    /\ pageIdle
    /\ card \in CardNumbers
    /\ typed = card
    /\ verdict = <<>>
    /\ redactIdle
    /\ nameIdle
    /\ pipeIdle

pageFrame ==
    <<csvRows, folderStructure, status, processedCount, currentFolder, pc, updatedRows,
      customerGroups, customerIndex, processed, folder, cardPairs, pairIdx, pairVars,
      unprocessedFiles, fileIdx, visited, calls, results, runFolders, outcomes>>

\* the caller formats the number: one more non-digit character somewhere
InsertNonDigit ==
    /\ verdict = <<>>
    /\ Len(typed) - Len(card) < MaxInsert
    /\ \E p \in 0..Len(typed), c \in NonDigitChars : typed' = InsertAt(typed, p, c)
    /\ UNCHANGED <<pageFrame, card, verdict, redactVars, nameVars, pipeVars>>

\* the call luhn_validate(typed)
Validate ==
    /\ verdict = <<>>
    /\ verdict' = <<luhn_validate(typed)>>
    /\ UNCHANGED <<pageFrame, card, typed, redactVars, nameVars, pipeVars>>

NextLuhn ==
    \/ InsertNonDigit
    \/ Validate

SpecLuhn == InitLuhn /\ [][NextLuhn]_vars

(***************************************************************************)
(* lib/imageUtils.ts: applyRedactionToSeparateImages, up to the four box   *)
(* lists it hands to the renderer.  Coordinates are integers; a quotient   *)
(* is kept exact as numerator and denominator, and 0/0 is JavaScript's NaN.*)
(***************************************************************************)
MaxBoxes == 2

Rat(n, d) == [num |-> n, den |-> d]

\* a < b on quotients with denominators >= 0; false when either is NaN
RatLess(a, b) == a.den # 0 /\ b.den # 0 /\ a.num * b.den < b.num * a.den

\* y - h for an integer y
RatMinus(y, h) == Rat(y * h.den - h.num, h.den)

Point(x, y) == [x |-> x, y |-> y]

\* regions the service may report: one at the top, one whose mean y is 2 and
\* whose vertices lie on both sides of it, a triangle lower down, and one
\* without vertices
Polygons ==
    {<<Point(0, 0), Point(2, 0), Point(2, 1), Point(0, 1)>>,
     <<Point(0, 1), Point(2, 1), Point(2, 3), Point(0, 3)>>,
     <<Point(1, 1), Point(3, 4), Point(0, 4)>>,
     <<>>}

Box(polygon) == [page |-> 1, polygon |-> polygon]

BoxLists ==
    UNION {[1..n -> {Box(polygon) : polygon \in Polygons}] : n \in 0..MaxBoxes}

ImageHeights == {1, 3}

PageHeights == {0, 4, 6}

MergedHeights == {0, 4}

InitRedaction ==
    /\ pageIdle
    /\ luhnIdle
    /\ redaction \in [frontHeight : ImageHeights, backHeight : ImageHeights,
                      pageHeight : PageHeights, mergedImageHeight : MergedHeights,
                      card_number_boxes : BoxLists, cvc_boxes : BoxLists]
    /\ separate = <<>>
    /\ redacted = <<>>
    /\ nameIdle
    /\ pipeIdle

RECURSIVE SumY(_)
SumY(polygon) == IF polygon = <<>> THEN 0 ELSE Head(polygon).y + SumY(Tail(polygon))

\* box.polygon.reduce((sum, p) => sum + p.y, 0) / box.polygon.length
avgY(box) == Rat(SumY(box.polygon), Len(box.polygon))

\* the test `avgY < apiFrontHeight` of a box whose first vertex decides
firstVertexBelongsToFront(box, apiFrontHeight) ==
    box.polygon # <<>> /\ RatLess(Rat(box.polygon[1].y, 1), apiFrontHeight)

\* the test `avgY < apiFrontHeight`
belongsToFront(box, apiFrontHeight) == RatLess(avgY(box), apiFrontHeight)

\* { ...box, polygon: box.polygon.map(p => ({ x: p.x, y: p.y - apiFrontHeight })) }
adjustedBox(box, apiFrontHeight) ==
    [box EXCEPT !.polygon =
        [k \in 1..Len(box.polygon) |->
            Point(box.polygon[k].x, RatMinus(box.polygon[k].y, apiFrontHeight))]]

\* the boxes one loop pushes to the front list
RECURSIVE frontBoxes(_, _)
frontBoxes(boxes, apiFrontHeight) ==
    IF boxes = <<>> THEN <<>>
    ELSE (IF belongsToFront(Head(boxes), apiFrontHeight) THEN <<Head(boxes)>> ELSE <<>>)
         \o frontBoxes(Tail(boxes), apiFrontHeight)

\* the boxes one loop pushes to the back list
RECURSIVE backBoxes(_, _)
backBoxes(boxes, apiFrontHeight) ==
    IF boxes = <<>> THEN <<>>
    ELSE (IF belongsToFront(Head(boxes), apiFrontHeight) THEN <<>>
          ELSE <<adjustedBox(Head(boxes), apiFrontHeight)>>)
         \o backBoxes(Tail(boxes), apiFrontHeight)

\* pageInfo?.height || mergedImageHeight
apiImageHeight(r) == IF r.pageHeight # 0 THEN r.pageHeight ELSE r.mergedImageHeight

\* apiImageHeight * (frontHeight / (frontHeight + backHeight))
apiFrontHeightOf(r) == Rat(apiImageHeight(r) * r.frontHeight, r.frontHeight + r.backHeight)

\* apiImageHeight - apiFrontHeight
backPageHeightOf(r) ==
    LET h == apiFrontHeightOf(r) IN Rat(apiImageHeight(r) * h.den - h.num, h.den)

RatPlus(a, b) == Rat(a.num * b.den + b.num * a.den, a.den * b.den)

RatSub(a, b) == Rat(a.num * b.den - b.num * a.den, a.den * b.den)

RatTimes(a, k) == Rat(a.num * k, a.den)

\* Math.min(...values) of a non-empty list
RECURSIVE MathMin(_)
MathMin(values) ==
    IF Len(values) = 1 THEN values[1]
    ELSE LET m == MathMin(Tail(values))
         IN IF RatLess(m, Head(values)) THEN m ELSE Head(values)

\* a polygon of the response as numbers of the canvas code
Numbers(polygon) ==
    [k \in 1..Len(polygon) |-> Point(Rat(polygon[k].x, 1), Rat(polygon[k].y, 1))]

\* a polygon of a back list: x as reported, y already shifted
BackNumbers(polygon) ==
    [k \in 1..Len(polygon) |-> Point(Rat(polygon[k].x, 1), polygon[k].y)]

\* an expansion that scales the coordinates themselves
expandPolygonFromOrigin(polygon, widthFactor, heightFactor) ==
    IF Len(polygon) < 3 THEN polygon
    ELSE [k \in 1..Len(polygon) |->
            Point(RatTimes(polygon[k].x, widthFactor), RatTimes(polygon[k].y, heightFactor))]

expandPolygonCVC(polygon, widthFactor, heightFactor) ==
    IF Len(polygon) < 3 THEN polygon
    ELSE LET minX == MathMin([k \in 1..Len(polygon) |-> polygon[k].x])
             minY == MathMin([k \in 1..Len(polygon) |-> polygon[k].y])
         IN [k \in 1..Len(polygon) |->
                Point(RatPlus(minX, RatTimes(RatSub(polygon[k].x, minX), widthFactor)),
                      RatPlus(minY, RatTimes(RatSub(polygon[k].y, minY), heightFactor)))]

\* the path drawPolygonMask fills: none for fewer than three vertices
drawPolygonMask(polygon) == IF Len(polygon) < 3 THEN <<>> ELSE <<polygon>>

\* the paths one call of applyRedactionToSingleImage fills, in order
RECURSIVE applyRedactionToSingleImage(_, _)
applyRedactionToSingleImage(polygons, isCVC) ==
    IF polygons = <<>> THEN <<>>
    ELSE drawPolygonMask(IF isCVC THEN expandPolygonCVC(Head(polygons), 4, 2)
                         ELSE Head(polygons))
         \o applyRedactionToSingleImage(Tail(polygons), isCVC)

FrontPolygons(boxes) == [k \in 1..Len(boxes) |-> Numbers(boxes[k].polygon)]

BackPolygons(boxes) == [k \in 1..Len(boxes) |-> BackNumbers(boxes[k].polygon)]

applyRedactionToSeparateImages ==
    /\ separate = <<>>
    /\ LET h == apiFrontHeightOf(redaction)
           frontCardBoxes == frontBoxes(redaction.card_number_boxes, h)
           frontCvcBoxes == frontBoxes(redaction.cvc_boxes, h)
           backCardBoxes == backBoxes(redaction.card_number_boxes, h)
           backCvcBoxes == backBoxes(redaction.cvc_boxes, h)
       IN separate' = <<[frontCardBoxes |-> frontCardBoxes,
                        frontCvcBoxes  |-> frontCvcBoxes,
                        backCardBoxes  |-> backCardBoxes,
                        backCvcBoxes   |-> backCvcBoxes,
                        apiFrontHeight |-> h,
                        frontPageHeight |-> h,
                        backPageHeight |-> backPageHeightOf(redaction),
                        frontCardMasks |->
                            applyRedactionToSingleImage(FrontPolygons(frontCardBoxes), FALSE),
                        frontCvcMasks |->
                            applyRedactionToSingleImage(FrontPolygons(frontCvcBoxes), TRUE),
                        backCardMasks |->
                            applyRedactionToSingleImage(BackPolygons(backCardBoxes), FALSE),
                        backCvcMasks |->
                            applyRedactionToSingleImage(BackPolygons(backCvcBoxes), TRUE)]>>
    /\ UNCHANGED <<pageFrame, luhnVars, redaction, redacted, nameVars, pipeVars>>

\* applyRedactionToImage on the one image of a folder: the paths it fills
applyRedactionToImage ==
    /\ redacted = <<>>
    /\ redacted' =
          <<[cardMasks |->
                applyRedactionToSingleImage(FrontPolygons(redaction.card_number_boxes), FALSE),
             cvcMasks |->
                applyRedactionToSingleImage(FrontPolygons(redaction.cvc_boxes), TRUE)]>>
    /\ UNCHANGED <<pageFrame, luhnVars, redaction, separate, nameVars, pipeVars>>

NextRedaction ==
    \/ applyRedactionToSeparateImages
    \/ applyRedactionToImage

SpecRedaction == InitRedaction /\ [][NextRedaction]_vars

(***************************************************************************)
(* The name helpers of pages/Index.tsx on names as they are typed into     *)
(* spreadsheets and given to folders.  A name is kept as the pieces it was *)
(* put together from; the helper gets their concatenation.                 *)
(***************************************************************************)
MaxPieces == 2

\* names to start from: none, a missing cell, a name with a spaced comma, a
\* folder name with its hash, a folder name that begins with a hash
NameSeeds == {"", Undefined, "Smith , John", "AL_B_deadbeef01", "deadbeef01_AL"}

NamePieces == {"A", "b", " ", "\t", "_", "-", ".", ",", "DEADBEEF", "abc1234"}

RECURSIVE ConcatAll(_)
ConcatAll(pieces) == IF pieces = <<>> THEN "" ELSE Head(pieces) \o ConcatAll(Tail(pieces))

NameOf(pieces) == IF pieces = <<Undefined>> THEN Undefined ELSE ConcatAll(pieces)

InitNames ==
    /\ pageIdle
    /\ luhnIdle
    /\ redactIdle
    /\ pipeIdle
    /\ \E seed \in NameSeeds : nameText = <<seed>>
    /\ returned = <<>>

\* the name grows by one piece
AppendPiece ==
    /\ returned = <<>>
    /\ nameText # <<Undefined>>
    /\ Len(nameText) <= MaxPieces
    /\ \E piece \in NamePieces : nameText' = Append(nameText, piece)
    /\ UNCHANGED <<pageFrame, luhnVars, redactVars, pipeVars, returned>>

Returned(fn, value) == [fn |-> fn, value |-> value]

CallNormalizeForComparison ==
    /\ returned = <<>>
    /\ returned' = <<Returned("normalizeForComparison", normalizeForComparison(NameOf(nameText)))>>
    /\ UNCHANGED <<pageFrame, luhnVars, redactVars, pipeVars, nameText>>

CallNormalizeCustomerName ==
    /\ returned = <<>>
    /\ returned' = <<Returned("normalizeCustomerName", normalizeCustomerName(NameOf(nameText)))>>
    /\ UNCHANGED <<pageFrame, luhnVars, redactVars, pipeVars, nameText>>

\* handleFolderUpload parses a folder name, which is always a string
CallExtractCustomerName ==
    /\ returned = <<>>
    /\ nameText # <<Undefined>>
    /\ returned' = <<Returned("extractCustomerName", extractCustomerName(NameOf(nameText)))>>
    /\ UNCHANGED <<pageFrame, luhnVars, redactVars, pipeVars, nameText>>

NextNames ==
    \/ AppendPiece
    \/ CallNormalizeForComparison
    \/ CallNormalizeCustomerName
    \/ CallExtractCustomerName

SpecNames == InitNames /\ [][NextNames]_vars

(***************************************************************************)
(* findMatchingFolder on the folders of an upload and a 'Customer name'    *)
(* cell.                                                                   *)
(***************************************************************************)
MaxFolders == 2

\* folderStructure after handleFolderUpload: up to MaxFolders subfolders with
\* one image each, sorted by customerName
MatchTrees ==
    {[k \in 1..Len(names) |-> MakeFolder(names[k], <<"b.jpg">>)] :
        names \in {n \in SubLists(MatchFolderNames) : Len(n) >= 1 /\ Len(n) <= MaxFolders}}

InitMatch ==
    /\ pageIdle
    /\ luhnIdle
    /\ redactIdle
    /\ pipeIdle
    /\ \E customerName \in MatchCustomers : nameText = <<customerName>>
    /\ returned = <<>>

\* handleFolderUpload for the folders of the upload
UploadFolders ==
    /\ folderStructure = <<>>
    /\ returned = <<>>
    /\ folderStructure' \in MatchTrees
    /\ UNCHANGED <<csvRows, status, processedCount, currentFolder, pc, updatedRows,
                   customerGroups, customerIndex, processed, folder, cardPairs, pairIdx,
                   pairVars, unprocessedFiles, fileIdx, visited, calls, results, runFolders,
                   outcomes, libVars>>

\* the call findMatchingFolder(customerName) of the customer loop
CallFindMatchingFolder ==
    /\ folderStructure # <<>>
    /\ returned = <<>>
    /\ returned' = <<Returned("findMatchingFolder",
                              findMatchingFolder(folderStructure, nameText[1]))>>
    /\ UNCHANGED <<pageFrame, luhnVars, redactVars, pipeVars, nameText>>

NextMatch ==
    \/ UploadFolders
    \/ CallFindMatchingFolder

SpecMatch == InitMatch /\ [][NextMatch]_vars

(***************************************************************************)
(* pages/RedactionPipeline.tsx: processImages and processFolder, one       *)
(* action per stretch of code between two awaits.  The page has its own    *)
(* folderStructure, status, processedCount and currentFolder.              *)
(***************************************************************************)
\* subfolder names of an upload to the redaction page, sorted by customerName
PipelineFolderNames == <<"AL_B_deadbeef01", "zed">>

\* the uploads of the subfolders `names`, each with one of the file lists
RECURSIVE TreesOver(_)
TreesOver(names) ==
    IF names = <<>> THEN {<<>>}
    ELSE {<<MakeFolder(Head(names), files)>> \o rest :
             files \in FileLists, rest \in TreesOver(Tail(names))}

\* folderStructure after handleFolderUpload: up to MaxFolders subfolders
PipelineTrees ==
    UNION {TreesOver(names) :
              names \in {n \in SubLists(PipelineFolderNames) :
                            Len(n) >= 1 /\ Len(n) <= MaxFolders}}

\* what the run of the redaction page leaves alone
pipeRest ==
    <<csvRows, updatedRows, customerGroups, customerIndex, processed, pairVars,
      unprocessedFiles, fileIdx, visited, calls, results, runFolders, outcomes,
      luhnVars, redactVars, nameVars>>

InitPipeline == pageIdle /\ libIdle

\* handleFolderUpload of the redaction page
PipelineUpload ==
    /\ pc = "idle"
    /\ folderStructure = <<>>
    /\ folderStructure' \in PipelineTrees
    /\ UNCHANGED <<pipeRest, pipeVars, status, processedCount, currentFolder, pc, folder,
                   cardPairs, pairIdx>>

\* the click on the start button up to the folder loop
PipelineStart ==
    /\ pc = "idle"
    /\ Len(folderStructure) # 0
    /\ status' = "processing"
    /\ processedCount' = 0
    /\ redactedCards' = <<>>
    /\ allCards' = <<>>
    /\ folderIdx' = 0
    /\ pc' = "folders"
    /\ UNCHANGED <<pipeRest, folderStructure, currentFolder, folder, cardPairs, pairIdx,
                   cards, cardIdx>>

\* { id, folderName, cardIndex, sourceFiles } of a pushed card
RedactedCard(folderName, index, sourceFiles) ==
    [id |-> folderName \o "-" \o ToString(index), folderName |-> folderName,
     cardIndex |-> index, sourceFiles |-> sourceFiles]

\* head of the folder loop and of processFolder, up to its first await
FolderEntered ==
    /\ pc = "folders"
    /\ folderIdx < Len(folderStructure)
    /\ folder' = folderStructure[folderIdx + 1]
    /\ currentFolder' = folderStructure[folderIdx + 1].customerName
    /\ cards' = <<>>
    /\ cardIdx' = 0
    /\ cardPairs' = <<>>
    /\ pairIdx' = 0
    /\ pc' = IF Len(folderStructure[folderIdx + 1].files) = 0 THEN "return"
             ELSE IF Len(folderStructure[folderIdx + 1].files) = 1 THEN "awaitOne"
             ELSE "awaitGrouping"
    /\ UNCHANGED <<pipeRest, folderStructure, status, processedCount, redactedCards,
                   allCards, folderIdx>>

\* the one image of a folder: getRedactionMetadata and applyRedactionToImage
\* settle; a rejection is logged
OneImageSettled ==
    /\ pc = "awaitOne"
    /\ \E ok \in BOOLEAN :
          cards' = IF ok THEN <<RedactedCard(folder.folderName, 0, <<folder.files[1]>>)>>
                   ELSE cards
    /\ pc' = "return"
    /\ UNCHANGED <<pipeRest, folderStructure, status, processedCount, currentFolder, folder,
                   cardPairs, pairIdx, redactedCards, allCards, cardIdx, folderIdx>>

\* categorizeImages and groupCreditCards settle; a rejection is logged by the
\* outer catch
GroupingSettled ==
    /\ pc = "awaitGrouping"
    /\ \/ /\ \E pairs \in PairLists : cardPairs' = pairs
          /\ pairIdx' = 1
          /\ cardIdx' = 0
          /\ pc' = "cards"
       \/ /\ pc' = "return"
          /\ UNCHANGED <<cardPairs, pairIdx, cardIdx>>
    /\ UNCHANGED <<pipeRest, folderStructure, status, processedCount, currentFolder, folder,
                   redactedCards, allCards, cards, folderIdx>>

\* folder.files.find(f => f.name === name)
Find(files, name) == \E k \in 1..Len(files) : files[k] = name

\* a card of the grouping answer whose files are found in the folder
CardLocated ==
    /\ pc = "cards"
    /\ pairIdx <= Len(cardPairs)
    /\ IF Pair.front # "" /\ Pair.back # ""
       THEN /\ Find(folder.files, Pair.front) /\ Find(folder.files, Pair.back)
            /\ pc' = "awaitPair"
       ELSE /\ Find(folder.files, IF Pair.front # "" THEN Pair.front ELSE Pair.back)
            /\ pc' = "awaitCard"
    /\ UNCHANGED <<pipeRest, pipeVars, folderStructure, status, processedCount,
                   currentFolder, folder, cardPairs, pairIdx>>

\* a card with a file that is not found: logged, `continue`
CardSkipped ==
    /\ pc = "cards"
    /\ pairIdx <= Len(cardPairs)
    /\ IF Pair.front # "" /\ Pair.back # ""
       THEN ~(Find(folder.files, Pair.front) /\ Find(folder.files, Pair.back))
       ELSE ~Find(folder.files, IF Pair.front # "" THEN Pair.front ELSE Pair.back)
    /\ pairIdx' = pairIdx + 1
    /\ UNCHANGED <<pipeRest, pipeVars, folderStructure, status, processedCount,
                   currentFolder, pc, folder, cardPairs>>

\* a push that gives both cards of a pair the same index
PairSettledOneIndex ==
    /\ pc = "awaitPair"
    /\ \E ok \in BOOLEAN :
          IF ok
          THEN /\ cards' = cards \o <<RedactedCard(folder.folderName, cardIdx, <<Pair.front>>),
                                      RedactedCard(folder.folderName, cardIdx, <<Pair.back>>)>>
               /\ cardIdx' = cardIdx + 1
          ELSE UNCHANGED <<cards, cardIdx>>
    /\ pairIdx' = pairIdx + 1
    /\ pc' = "cards"
    /\ UNCHANGED <<pipeRest, folderStructure, status, processedCount, currentFolder, folder,
                   cardPairs, redactedCards, allCards, folderIdx>>

\* combineImagesVertically, getRedactionMetadata and
\* applyRedactionToSeparateImages settle: front card, then back card; a
\* rejection is logged by the card's catch
PairSettled ==
    /\ pc = "awaitPair"
    /\ \E ok \in BOOLEAN :
          IF ok
          THEN /\ cards' = cards \o <<RedactedCard(folder.folderName, cardIdx, <<Pair.front>>),
                                      RedactedCard(folder.folderName, cardIdx + 1, <<Pair.back>>)>>
               /\ cardIdx' = cardIdx + 2
          ELSE UNCHANGED <<cards, cardIdx>>
    /\ pairIdx' = pairIdx + 1
    /\ pc' = "cards"
    /\ UNCHANGED <<pipeRest, folderStructure, status, processedCount, currentFolder, folder,
                   cardPairs, redactedCards, allCards, folderIdx>>

\* getRedactionMetadata and applyRedactionToImage of a card with one image
\* settle
CardSettled ==
    /\ pc = "awaitCard"
    /\ \E ok \in BOOLEAN :
          IF ok
          THEN /\ cards' = Append(cards,
                      RedactedCard(folder.folderName, cardIdx,
                                   <<IF Pair.front # "" THEN Pair.front ELSE Pair.back>>))
               /\ cardIdx' = cardIdx + 1
          ELSE UNCHANGED <<cards, cardIdx>>
    /\ pairIdx' = pairIdx + 1
    /\ pc' = "cards"
    /\ UNCHANGED <<pipeRest, folderStructure, status, processedCount, currentFolder, folder,
                   cardPairs, redactedCards, allCards, folderIdx>>

\* after the last card of the grouping answer processFolder returns
CardsDone ==
    /\ pc = "cards"
    /\ pairIdx > Len(cardPairs)
    /\ pc' = "return"
    /\ UNCHANGED <<pipeRest, pipeVars, folderStructure, status, processedCount,
                   currentFolder, folder, cardPairs, pairIdx>>

\* `await processFolder(folder)` resolves: the cards are published and the
\* folder is counted
FolderReturned ==
    /\ pc = "return"
    /\ allCards' = allCards \o cards
    /\ redactedCards' = allCards \o cards
    /\ processedCount' = folderIdx + 1
    /\ folderIdx' = folderIdx + 1
    /\ pc' = "folders"
    /\ UNCHANGED <<pipeRest, folderStructure, status, currentFolder, folder, cardPairs,
                   pairIdx, cards, cardIdx>>

\* after the last folder
PipelineFinish ==
    /\ pc = "folders"
    /\ folderIdx = Len(folderStructure)
    /\ redactedCards' = allCards
    /\ status' = "complete"
    /\ currentFolder' = ""
    /\ pc' = "done"
    /\ UNCHANGED <<pipeRest, folderStructure, processedCount, folder, cardPairs, pairIdx,
                   allCards, cards, cardIdx, folderIdx>>

\* handleDownloadAllOriginals: the path of every card inside originals.zip
downloadPaths(cardList) ==
    [k \in 1..Len(cardList) |->
        "original/" \o cardList[k].folderName \o "/card"
            \o ToString(cardList[k].cardIndex + 1) \o ".jpg"]

NextPipeline ==
    \/ PipelineUpload
    \/ PipelineStart
    \/ FolderEntered
    \/ OneImageSettled
    \/ GroupingSettled
    \/ CardLocated
    \/ CardSkipped
    \/ PairSettled
    \/ CardSettled
    \/ CardsDone
    \/ FolderReturned
    \/ PipelineFinish

SpecPipeline == InitPipeline /\ [][NextPipeline]_vars

FairSpecPipeline == SpecPipeline /\ WF_vars(NextPipeline)

(***************************************************************************)
(* Properties.                                                             *)
(***************************************************************************)
ActualKeys == {KeyCCN, KeyLuhn}

\* rows `b` are rows `a` up to the two actual-result columns: same rows in the
\* same order, same other columns, same values in them
SameButActual(a, b) ==
    /\ Len(a) = Len(b)
    /\ \A i \in 1..Len(a) :
        /\ DOMAIN b[i] \ ActualKeys = DOMAIN a[i] \ ActualKeys
        /\ \A k \in DOMAIN a[i] \ ActualKeys : b[i][k] = a[i][k]

\* C1: a run changes no field of any row other than 'CCN Actual' and
\* 'Luhn Test Actual', and adds, removes or reorders no row: every step keeps
\* the rows of the page (csvRows) and the rows of the run (updatedRows) equal
\* up to these two columns.
C1_OnlyActualColumnsChange ==
    [][/\ SameButActual(csvRows, csvRows')
       /\ pc # "idle" => SameButActual(updatedRows, updatedRows')]_vars

\* C1 witness: a finished run wrote a result into a sheet that has the
\* 'Luhn/BIN Actual' column and so gained the 'Luhn Test Actual' key.
C1_Witness ==
    /\ pc = "done"
    /\ \E i \in 1..Len(csvRows) :
        /\ "Luhn/BIN Actual" \in DOMAIN csvRows[i]
        /\ KeyLuhn \in DOMAIN csvRows[i]
        /\ csvRows[i][KeyCCN] \notin {"", PriorCCN}

\* first row of the sheet that carries the customer name
FirstRowOf(name) == CHOOSE i \in 1..Len(csvRows) :
    /\ Get(csvRows[i], KeyName) = name
    /\ \A j \in 1..(i - 1) : Get(csvRows[j], KeyName) # name

\* C2: whatever fails, every customer group of the sheet is processed
\* exactly once, in order of first appearance; a run that is not finished can
\* always take a step, and when it is finished every customer was visited
\* and every row counted.
C2_EveryCustomerOnceInOrder ==
    /\ pc # "done" => ENABLED Next
    /\ pc = "done" =>
        /\ SeqToSet(visited) = {Get(csvRows[i], KeyName) : i \in 1..Len(csvRows)}
        /\ \A i, j \in 1..Len(visited) :
            i < j => FirstRowOf(visited[i]) < FirstRowOf(visited[j])
        /\ processed = Len(csvRows)

\* C2 witness: the first customer's processing threw, and the run still
\* visited the second customer and finished.
C2_Witness ==
    /\ pc = "done"
    /\ Len(visited) = 2
    /\ csvRows[1][KeyCCN] = ProcessingError
    /\ csvRows[Len(csvRows)][KeyCCN] = FolderNotFound

Last(seq) == seq[Len(seq)]

\* rows written by the outcomes produced so far for the current customer
WrittenByOutcomes == UNION {outcomes[k].rows : k \in 1..Len(outcomes)}

\* the step produces an outcome
NewOutcome == Len(outcomes') = Len(outcomes) + 1

\* C3 as stated: while a customer is processed, a row already written by an
\* outcome of that customer is not changed any more.
C3_Original ==
    [][customerIndex' = customerIndex =>
         \A i \in WrittenByOutcomes : updatedRows'[i] = updatedRows[i]]_vars

\* C3 amended: a row already written by an outcome of the customer is not
\* changed by the fallback to empty rows nor by the leftover-file pass (exact
\* filename reconciliation and the NOT_FOUND marking do overwrite it).
C3_FallbackAndLeftoverNeverOverwrite ==
    [][(/\ customerIndex' = customerIndex
        /\ NewOutcome
        /\ Last(outcomes').fallback \/ Last(outcomes').pass = "leftover")
         => \A i \in WrittenByOutcomes : updatedRows'[i] = updatedRows[i]]_vars

\* C3 witness: the leftover pass produced an outcome for a file whose row an
\* earlier outcome of the same customer had already written.
C3_Witness ==
    /\ Len(outcomes) >= 2
    /\ Last(outcomes).pass = "leftover"
    /\ \E k \in 1..(Len(outcomes) - 1) :
        outcomes[k].rows \cap
            MatchingRows(updatedRows, Group.rowIndices, SeqToSet(Last(outcomes).files)) # {}

\* C4 as stated: every outcome produced for a customer is written to at
\* least one row of that customer.
C4_Claim == \A k \in 1..Len(outcomes) : outcomes[k].rows # {}

OcrCalls == SelectSeq(calls, LAMBDA c : c.kind = "ocr")

\* the current customer has two or more images and its processing reached
\* the end of the try block
MultiFinished ==
    /\ pc = "loop"
    /\ customerIndex >= 1
    /\ Len(folder.files) >= 2
    /\ pairIdx > Len(cardPairs)

\* C5 as stated: when a customer with two or more images finishes without an
\* exception, every file of its folder was submitted to extraction, alone or
\* in a composite.
C5_Claim ==
    MultiFinished =>
        \A f \in SeqToSet(folder.files) :
            \E c \in 1..Len(OcrCalls) : f \in SeqToSet(OcrCalls[c].files)

\* C6 as stated: when categorization or grouping fails or yields no pair,
\* the N files are processed as N singles: N extraction attempts, one per
\* file, N outcomes, and every row named like a file holds that file's outcome.
C6_Claim ==
    (MultiFinished /\ cardPairs = SinglesOf(folder.files)) =>
        /\ OcrCalls = [i \in 1..Len(folder.files) |-> OcrCall(<<folder.files[i]>>)]
        /\ Len(outcomes) = Len(folder.files)
        /\ \A i \in 1..Len(folder.files) :
            /\ outcomes[i].files = <<folder.files[i]>>
            /\ \A idx \in MatchingRows(updatedRows, Group.rowIndices, {folder.files[i]}) :
                /\ updatedRows[idx][KeyCCN] = outcomes[i].ccn
                /\ updatedRows[idx][KeyLuhn] = outcomes[i].luhn

\* the next customer of the loop has no folder, or a folder without images
NextHasNoFolder ==
    /\ pc = "loop"
    /\ customerIndex < Len(customerGroups)
    /\ LET f == findMatchingFolder(folderStructure, customerGroups[customerIndex + 1].name)
       IN f = NullFolder \/ Len(f.files) = 0

\* C7: for a customer without folder no remote call is made, its rows
\* without actual card number get FOLDER_NOT_FOUND / 'Fail', every other row
\* is unchanged, and the loop is back at its head for the next customer.
C7_NoFolderMarksUnfilledRows ==
    [][NextHasNoFolder =>
         /\ pc' = "loop"
         /\ customerIndex' = customerIndex + 1
         /\ calls' = <<>>
         /\ \A i \in 1..Len(updatedRows) :
             IF i \in SeqToSet(customerGroups[customerIndex + 1].rowIndices)
                /\ RowEmpty(updatedRows, i)
             THEN /\ updatedRows'[i][KeyCCN] = FolderNotFound
                  /\ updatedRows'[i][KeyLuhn] = "Fail"
             ELSE updatedRows'[i] = updatedRows[i]]_vars

\* C7 witness: a customer without folder had one filled and one unfilled
\* row; the unfilled one now holds FOLDER_NOT_FOUND, the other its old value.
C7_Witness ==
    /\ pc = "loop"
    /\ customerIndex >= 1
    /\ folder = NullFolder
    /\ calls = <<>>
    /\ \E i, j \in SeqToSet(Group.rowIndices) :
        /\ updatedRows[i][KeyCCN] = FolderNotFound
        /\ updatedRows[j][KeyCCN] = PriorCCN

\* C8: when compositing a located pair throws, the customer's rows without
\* actual card number get PROCESSING_ERROR / 'Fail', every other row (filled
\* rows of the customer, rows of other customers) is unchanged, and the loop
\* is back at its head for the next customer.
C8_ExceptionMarksUnfilledRows ==
    [][(pc = "awaitCombine" /\ pc' # "awaitOcr") =>
         /\ pc' = "loop"
         /\ customerIndex' = customerIndex
         /\ \A i \in 1..Len(updatedRows) :
             IF i \in SeqToSet(Group.rowIndices) /\ RowEmpty(updatedRows, i)
             THEN /\ updatedRows'[i][KeyCCN] = ProcessingError
                  /\ updatedRows'[i][KeyLuhn] = "Fail"
             ELSE updatedRows'[i] = updatedRows[i]]_vars

\* C8 witness: compositing threw for a customer with one filled and one
\* unfilled row; the unfilled one holds PROCESSING_ERROR, the other its value.
C8_Witness ==
    /\ pc = "loop"
    /\ customerIndex >= 1
    /\ Len(cardPairs) >= 1
    /\ pairIdx <= Len(cardPairs)
    /\ \E i, j \in SeqToSet(Group.rowIndices) :
        /\ updatedRows[i][KeyCCN] = ProcessingError
        /\ updatedRows[j][KeyCCN] = PriorCCN

ExactFolders(name) ==
    {f \in SeqToSet(folderStructure) :
        normalizeCustomerName(f.customerName) = normalizeCustomerName(name)}

\* C9 as stated: when some folder's normalized name equals the customer's
\* normalized name, the folder matched for the customer is such a folder.
C9_Claim ==
    (pc \notin {"idle", "done"} /\ customerIndex >= 1) =>
        (ExactFolders(Group.name) # {} => folder \in ExactFolders(Group.name))

\* C10 as stated: an outcome that matches no row is written only to rows of
\* the customer that had no actual card number, the first such rows in
\* rowIndices order, at most one per filename of the outcome.
C10_Claim ==
    [][(NewOutcome /\ Last(outcomes').fallback) =>
         LET o == Last(outcomes')
             rowIndices == customerGroups'[customerIndex'].rowIndices
         IN /\ o.rows \subseteq SeqToSet(rowIndices)
            /\ \A i \in o.rows : RowEmpty(updatedRows, i)
            /\ Cardinality(o.rows) <= Len(o.files)
            /\ \A i \in o.rows : \A j \in SeqToSet(rowIndices) :
                (j < i /\ RowEmpty(updatedRows, j)) => j \in o.rows]_vars

\* positions where processImages is suspended on a remote call
RemoteAwait ==
    {"awaitSingleOcr", "awaitCategorize", "awaitGroup", "awaitOcr", "awaitFrontOcr",
     "awaitBackOcr", "awaitLeftoverOcr"}

\* remote calls of the current customer that were issued and have not settled
Outstanding == Len(calls) - Len(results)

RunStep == <<pc, pairIdx, fileIdx>>' # <<pc, pairIdx, fileIdx>>

\* C12 as stated: while a run is in progress, a step of the run changes only
\* rows of the customer being processed and keeps the number of rows, and no
\* other step changes csvRows.
C12_Claim ==
    [][pc \notin {"idle", "done"} =>
         IF RunStep
         THEN /\ Len(csvRows') = Len(csvRows)
              /\ \A i \in 1..Len(csvRows) :
                   csvRows'[i] # csvRows[i] =>
                       /\ customerIndex' >= 1
                       /\ i \in SeqToSet(customerGroups'[customerIndex'].rowIndices)
         ELSE csvRows' = csvRows]_vars

\* the exported file read back as rows
ExportedRows == parseCSV(generateCSV(csvRows))

\* C13 as stated: after a run the exported file has every row and every
\* column of the spreadsheet with its value, the actual card number in
\* 'CCN Actual', and the validation written by the run in the spreadsheet's
\* actual-validation column ('Luhn/BIN Actual' when the spreadsheet has it).
C13_Claim ==
    pc = "done" =>
        /\ Len(ExportedRows) = Len(csvRows)
        /\ \A i \in 1..Len(csvRows) :
            /\ \A k \in DOMAIN csvRows[i] \ {KeyCCN, KeyLuhn, "Luhn/BIN Actual"} :
                 Get(ExportedRows[i], k) = csvRows[i][k]
            /\ Get(ExportedRows[i], KeyCCN) = csvRows[i][KeyCCN]
            /\ KeyLuhn \in DOMAIN csvRows[i] =>
                 Get(ExportedRows[i], getLuhnBinActualColumn(csvRows[i])) = csvRows[i][KeyLuhn]

\* C14: luhn_validate answers for a text what it answers for the digits of
\* the text: whatever non-digit characters (hyphens, spaces, letters) were
\* inserted into the digit string `card` to give `typed`, the verdict for
\* `typed` is the verdict for `card`.
C14_DependsOnDigitsOnly ==
    verdict # <<>> => (IsDigits(card) /\ verdict[1] = luhn_validate(card))

C14_Witness ==
    /\ verdict = <<TRUE>>
    /\ typed # card
    /\ \E i \in 1..Len(typed) : Chr(typed, i) = "x"

\* the prefix patterns of validateTypeAndLength, one per network
HasPrefix(number, prefix) == Len(number) >= Len(prefix) /\ SubSeq(number, 1, Len(prefix)) = prefix

NetworkPrefix(net, number) ==
    CASE net = "AMEX" -> PrefixNum(number, 2) \in {34, 37}
      [] net = "VISA" -> HasPrefix(number, "4")
      [] net = "MASTER" ->
            PrefixNum(number, 2) \in 51..55 \/ PrefixNum(number, 4) \in 2221..2720
      [] net = "DISCOVER" ->
            \/ HasPrefix(number, "6011") \/ HasPrefix(number, "65")
            \/ PrefixNum(number, 3) \in 644..649
            \/ PrefixNum(number, 6) \in 622126..622925
      [] net = "JCB" -> PrefixNum(number, 4) \in 3528..3589
      [] net = "DINERS" ->
            PrefixNum(number, 3) \in 300..305 \/ PrefixNum(number, 2) \in {36, 38, 39}
      [] net = "UNIONPAY" -> HasPrefix(number, "62")
      [] net = "MAESTRO" ->
            \/ PrefixNum(number, 4) \in {5018, 5020, 5038, 6304, 6759}
            \/ HasPrefix(number, "58") \/ PrefixNum(number, 4) \in 6761..6763

\* some network's prefix pattern and length set both accept the number
MatchesNetwork(number) ==
    \E net \in DOMAIN LENGTHS : NetworkPrefix(net, number) /\ Len(number) \in LENGTHS[net]

\* the checksum by position: the k-th digit from the right is doubled when k
\* is even, and 9 is taken off a doubled digit above 9
RECURSIVE ChecksumFrom(_, _)
ChecksumFrom(number, k) ==
    IF k > Len(number) THEN 0
    ELSE LET d == ToDigit(Chr(number, Len(number) - k + 1))
             t == IF k % 2 = 0 THEN (IF 2 * d > 9 THEN 2 * d - 9 ELSE 2 * d) ELSE d
         IN t + ChecksumFrom(number, k + 1)

\* C15: luhn_validate(s) is true exactly when the digits of s are non-empty,
\* their leading digits and length match some network's prefix and length
\* set, and the Luhn checksum passes; 4532015112830366 is valid,
\* 4532015112830367 is invalid, empty and non-numeric input is invalid.
C15_Claim ==
    verdict # <<>> =>
        LET digits == StripNonDigits(typed)
        IN /\ verdict[1] = (/\ digits # ""
                            /\ MatchesNetwork(digits)
                            /\ ChecksumFrom(digits, 1) % 10 = 0)
           /\ digits = "4532015112830366" => verdict[1]
           /\ digits = "4532015112830367" => ~verdict[1]
           /\ digits = "" => ~verdict[1]

Count(seq, e) == Cardinality({i \in DOMAIN seq : seq[i] = e})

\* the mean of the vertices' y lies below H * f / (f + b)
MeanBelowSplit(box, r) ==
    /\ Len(box.polygon) > 0
    /\ SumY(box.polygon) * (r.frontHeight + r.backHeight)
           < apiImageHeight(r) * r.frontHeight * Len(box.polygon)

\* the box with x kept and H * f / (f + b) taken off every y
Shifted(box, r) ==
    [page |-> box.page,
     polygon |-> [k \in 1..Len(box.polygon) |->
                    [x |-> box.polygon[k].x,
                     y |-> Rat(box.polygon[k].y * (r.frontHeight + r.backHeight)
                                   - apiImageHeight(r) * r.frontHeight,
                               r.frontHeight + r.backHeight)]]]

\* every box of `boxes` is in `front` as it came when its mean y is below the
\* split and in `back` shifted otherwise, as often as it was reported, and the
\* two lists hold nothing else
SplitsExactly(boxes, front, back, r) ==
    /\ Len(front) + Len(back) = Len(boxes)
    /\ \A i \in DOMAIN boxes :
          IF MeanBelowSplit(boxes[i], r)
          THEN /\ Count(front, boxes[i]) = Count(boxes, boxes[i])
               /\ Count(back, Shifted(boxes[i], r)) = 0
          ELSE /\ Count(front, boxes[i]) = 0
               /\ Count(back, Shifted(boxes[i], r)) = Count(boxes, boxes[i])

\* C16: applyRedactionToSeparateImages puts every card-number and every CVC
\* region on exactly one side: on the front, unchanged, when the mean y of
\* its vertices is below apiFrontHeight = apiPageHeight * frontHeight /
\* (frontHeight + backHeight); on the back otherwise, with apiFrontHeight
\* taken off every y and x kept; none is on both sides and none is lost.
C16_EveryRegionOnOneSide ==
    separate # <<>> =>
        /\ SplitsExactly(redaction.card_number_boxes, separate[1].frontCardBoxes,
                         separate[1].backCardBoxes, redaction)
        /\ SplitsExactly(redaction.cvc_boxes, separate[1].frontCvcBoxes,
                         separate[1].backCvcBoxes, redaction)

\* a card-number region on the front, and a CVC region whose mean y is
\* exactly the split while one of its vertices is above it
C16_Witness ==
    /\ separate # <<>>
    /\ Len(separate[1].frontCardBoxes) > 0
    /\ Len(separate[1].backCvcBoxes) > 0
    /\ \E i \in DOMAIN redaction.cvc_boxes :
          LET polygon == redaction.cvc_boxes[i].polygon
              den == redaction.frontHeight + redaction.backHeight
              top == apiImageHeight(redaction) * redaction.frontHeight
          IN /\ Len(polygon) > 0
             /\ SumY(polygon) * den = top * Len(polygon)
             /\ \E k \in DOMAIN polygon : polygon[k].y * den < top

IsComposite(c) == c.kind = "ocr" /\ Len(c.files) = 2

\* position in `calls` of the composite call made last
LastComposite ==
    CHOOSE k \in DOMAIN calls :
        IsComposite(calls[k]) /\ \A j \in (k + 1)..Len(calls) : ~IsComposite(calls[j])

\* the last outcome of the customer is that of a located front/back pair and
\* no call was made since
PairOutcomeSettled ==
    /\ pc = "pairs"
    /\ outcomes # <<>>
    /\ Last(outcomes).pass = "pair"
    /\ Len(Last(outcomes).files) = 2
    /\ \E k \in DOMAIN calls : IsComposite(calls[k])
    /\ Last(calls).kind = "ocr"

Gave(r) == r # Throw /\ r # ""

\* C17: for a pair with both files located the composite is submitted first,
\* the front file alone only after the composite failed, the back file alone
\* only after the front call failed or gave nothing; the first non-empty
\* result is the outcome, NOT_FOUND with 'Fail' when all three failed; a pair
\* makes at most three extraction calls and none after one that succeeded.
C17_PairCallOrder ==
    /\ (pc \in {"awaitOcr", "awaitFrontOcr", "awaitBackOcr"} /\ frontFile # Undefined)
           => Len(calls) - LastComposite + 1 <= 3
    /\ PairOutcomeSettled =>
        LET k == LastComposite
            n == Len(calls) - k + 1
            out == Last(outcomes)
        IN /\ Len(results) = Len(calls)
           /\ n \in 1..3
           /\ calls[k] = OcrCall(out.files)
           /\ n >= 2 => (calls[k + 1] = OcrCall(<<out.files[1]>>) /\ ~Gave(results[k]))
           /\ n = 3 => (calls[k + 2] = OcrCall(<<out.files[2]>>) /\ ~Gave(results[k + 1]))
           /\ Gave(results[Len(results)]) =>
                 (out.ccn = results[Len(results)] /\ out.luhn = LuhnResult(out.ccn))
           /\ ~Gave(results[Len(results)]) =>
                 (n = 3 /\ out.ccn = NotFound /\ out.luhn = "Fail")

\* the composite and the front call failed and the back call gave the number
C17_Witness ==
    /\ PairOutcomeSettled
    /\ Len(calls) - LastComposite + 1 = 3
    /\ Last(outcomes).ccn = "4532015112830366"
    /\ Last(results) = "4532015112830366"

\* the one file of a two-sided pair that the folder holds, when it holds
\* exactly one of the two
LocatedAlone(p) ==
    LET ff == FindFile(folder.files, p.front, 1)
        bf == FindFile(folder.files, p.back, 1)
    IN IF p.front = "" \/ p.back = "" THEN Undefined
       ELSE IF ff # Undefined /\ bf = Undefined THEN ff
       ELSE IF ff = Undefined /\ bf # Undefined THEN bf
       ELSE Undefined

\* C18 as stated: when a pair names a front and a back file and only one of
\* them is located in the folder, the located file is submitted alone and its
\* outcome is reconciled to rows.
C18_Claim ==
    MultiFinished =>
        \A i \in DOMAIN cardPairs :
            LocatedAlone(cardPairs[i]) # Undefined =>
                /\ \E k \in DOMAIN calls : calls[k] = OcrCall(<<LocatedAlone(cardPairs[i])>>)
                /\ \E k \in DOMAIN outcomes :
                      outcomes[k].files = <<LocatedAlone(cardPairs[i])>>

\* the names of a pair that FindFile does not locate in the folder
MissingReferences(p) ==
    {n \in {p.front, p.back} \ {""} : FindFile(folder.files, n, 1) = Undefined}

\* a step of the pair loop that leaves a pair because a file is not located
MissingStep == pc = "pairs" /\ pairIdx <= Len(cardPairs) /\ pairIdx' = pairIdx + 1

\* C19 as stated: when a pair references a file that the folder does not
\* hold, the customer's rows whose normalized filename equals a missing
\* reference get NOT_FOUND and 'Fail', nothing is submitted for the pair, and
\* every other row, the row of the pair's present file included, is left as
\* it was.
C19_Claim ==
    [][MissingStep =>
        /\ calls' = calls
        /\ \A idx \in 1..Len(updatedRows) :
              IF /\ idx \in SeqToSet(Group.rowIndices)
                 /\ \E m \in MissingReferences(Pair) :
                       Norm(m) = Norm(Get(updatedRows[idx], KeyFile))
              THEN /\ updatedRows'[idx][KeyCCN] = NotFound
                   /\ updatedRows'[idx][KeyLuhn] = "Fail"
              ELSE updatedRows'[idx] = updatedRows[idx]]_vars

\* a step that writes the outcome of a single image or of a pair back to rows
WriteBackStep ==
    /\ Len(outcomes') = Len(outcomes) + 1
    /\ Last(outcomes').pass \in {"single", "pair"}

\* rows of the current customer, before the step, whose normalized filename
\* is the normalized form of a filename of the outcome being written
ExactRows ==
    {idx \in SeqToSet(Group.rowIndices) :
        \E k \in DOMAIN Last(outcomes').files :
            Norm(Last(outcomes').files[k]) = Norm(Get(updatedRows[idx], KeyFile))}

\* C20: exact reconciliation writes the outcome's card number and validation
\* to every row of the customer whose normalized filename equals the
\* normalized form of one of the outcome's filenames and, when there is such
\* a row, to no other row; a pair whose two files are on two rows fills both.
C20_ExactReconciliation ==
    [][(WriteBackStep /\ ExactRows # {}) =>
        /\ Len(updatedRows') = Len(updatedRows)
        /\ \A idx \in 1..Len(updatedRows) :
              IF idx \in ExactRows
              THEN /\ updatedRows'[idx][KeyCCN] = Last(outcomes').ccn
                   /\ updatedRows'[idx][KeyLuhn] = Last(outcomes').luhn
              ELSE updatedRows'[idx] = updatedRows[idx]]_vars

\* a pair's number has just been written to the two rows naming its two files
C20_Witness ==
    /\ outcomes # <<>>
    /\ Last(outcomes).pass = "pair"
    /\ Len(Last(outcomes).files) = 2
    /\ ~Last(outcomes).fallback
    /\ Last(outcomes).ccn = "4532015112830366"
    /\ Len(updatedRows) = 2
    /\ Norm(Get(updatedRows[1], KeyFile)) # Norm(Get(updatedRows[2], KeyFile))
    /\ \A idx \in {1, 2} :
          /\ \E k \in {1, 2} : Norm(Last(outcomes).files[k]) = Norm(Get(updatedRows[idx], KeyFile))
          /\ Get(updatedRows[idx], KeyCCN) = "4532015112830366"
          /\ Get(updatedRows[idx], KeyLuhn) = "Pass"

\* the call that settles in this step submitted one image on its own, outside
\* the retry chain of a located pair, and it failed
LoneCallFails ==
    /\ \/ pc \in {"awaitSingleOcr", "awaitLeftoverOcr"}
       \/ pc = "awaitOcr" /\ frontFile = Undefined
    /\ results' = Append(results, Throw)

\* C21: a failed extraction of an image submitted on its own (the only image
\* of a folder, an unpaired file, a leftover file) is not retried and does not
\* reach the customer's catch block: its outcome is NOT_FOUND with 'Fail', no
\* row gets anything else, and the run goes on with the next pair or file.
C21_LoneFailureIsNotFound ==
    [][LoneCallFails =>
        /\ Len(outcomes') = Len(outcomes) + 1
        /\ Last(outcomes').ccn = NotFound
        /\ Last(outcomes').luhn = "Fail"
        /\ Last(outcomes').files = Last(calls).files
        /\ \A idx \in 1..Len(updatedRows) :
              updatedRows'[idx] # updatedRows[idx] =>
                  (updatedRows'[idx][KeyCCN] = NotFound /\ updatedRows'[idx][KeyLuhn] = "Fail")
        /\ \/ calls' = calls
           \/ /\ Len(calls') = Len(calls) + 1
              /\ Last(calls').files # Last(calls).files
        /\ pc = "awaitOcr" => (pc' = "pairs" /\ pairIdx' = pairIdx + 1)
        /\ pc = "awaitLeftoverOcr" =>
              IF fileIdx < Len(unprocessedFiles)
              THEN pc' = "awaitLeftoverOcr" /\ fileIdx' = fileIdx + 1
              ELSE pc' = "loop"
        /\ pc = "awaitSingleOcr" => pc' = "loop"]_vars

\* the first leftover file failed, got NOT_FOUND, and the second is submitted
C21_Witness ==
    /\ pc = "awaitLeftoverOcr"
    /\ fileIdx = 2
    /\ Last(results) = Throw
    /\ Last(outcomes).pass = "leftover"
    /\ Last(outcomes).ccn = NotFound
    /\ Last(calls) = OcrCall(<<unprocessedFiles[2]>>)

HasChar(str, alphabet) == \E i \in 1..Len(str) : InStr(Chr(str, i), alphabet)

\* no '_' or '-', no two whitespace characters in a row, none at either end
Canonical(str) ==
    /\ ~HasChar(str, "_-")
    /\ \A i \in 1..(Len(str) - 1) : ~(IsSpace(Chr(str, i)) /\ IsSpace(Chr(str, i + 1)))
    /\ str # "" => (~IsSpace(Chr(str, 1)) /\ ~IsSpace(Chr(str, Len(str))))

\* C22 as stated: both normalizers return a canonical form (no '_' or '-', no
\* two consecutive whitespace characters, no whitespace at the ends; the
\* customer variant upper-case without '.' and ',', the basic variant
\* lower-case), normalizing a normalized string returns it unchanged, and
\* empty input gives empty output.
C22_Claim ==
    /\ (returned # <<>> /\ returned[1].fn = "normalizeForComparison") =>
          /\ Canonical(returned[1].value)
          /\ ~HasChar(returned[1].value, UpperLetters)
          /\ normalizeForComparison(returned[1].value) = returned[1].value
          /\ Falsy(NameOf(nameText)) => returned[1].value = ""
    /\ (returned # <<>> /\ returned[1].fn = "normalizeCustomerName") =>
          /\ Canonical(returned[1].value)
          /\ ~HasChar(returned[1].value, LowerLetters)
          /\ ~HasChar(returned[1].value, ".,")
          /\ normalizeCustomerName(returned[1].value) = returned[1].value
          /\ Falsy(NameOf(nameText)) => returned[1].value = ""

\* the tokens between the underscores of a string
TokensOf(str) ==
    LET cuts == <<0>> \o SelectSeq([i \in 1..Len(str) |-> i], LAMBDA i : Chr(str, i) = "_")
                     \o <<Len(str) + 1>>
    IN [k \in 1..(Len(cuts) - 1) |-> SubSeq(str, cuts[k] + 1, cuts[k + 1] - 1)]

\* 8 or more characters, each a digit or one of a..f, A..F
HashLike(token) ==
    /\ Len(token) >= 8
    /\ \A i \in 1..Len(token) : InStr(Chr(token, i), "0123456789abcdefABCDEF")

\* C23: extractCustomerName returns, joined by single spaces and trimmed, the
\* underscore-separated tokens that precede the first hash-like token (8 or
\* more hexadecimal characters) at position >= 1; a hash-like token in first
\* position is kept, and without such a token all tokens are kept.
C23_TokensBeforeHash ==
    (returned # <<>> /\ returned[1].fn = "extractCustomerName") =>
        LET tokens == TokensOf(NameOf(nameText))
            hashes == {i \in 2..Len(tokens) : HashLike(tokens[i])}
            kept == IF hashes = {} THEN Len(tokens)
                    ELSE (CHOOSE i \in hashes : \A j \in hashes : i <= j) - 1
        IN returned[1].value = Trim(JoinSpace(SubSeq(tokens, 1, kept)))

\* a name that begins with a hash-like token and has another one further on
C23_Witness ==
    /\ returned # <<>>
    /\ returned[1].fn = "extractCustomerName"
    /\ NameOf(nameText) = "deadbeef01_AL_DEADBEEF"
    /\ returned[1].value = "deadbeef01 AL"

\* the polygons of `polygons` that have a fillable path
Fillable(polygons) == SelectSeq(polygons, LAMBDA polygon : Len(polygon) >= 3)

SameNumber(a, b) == a.den # 0 /\ b.den # 0 /\ a.num * b.den = b.num * a.den

\* m is the least of the coordinates picked by `axis` ("x" or "y")
LeastOf(m, polygon, axis) ==
    /\ \E k \in DOMAIN polygon : SameNumber(polygon[k][axis], m)
    /\ \A k \in DOMAIN polygon : ~RatLess(polygon[k][axis], m)

GreatestOf(m, polygon, axis) ==
    /\ \E k \in DOMAIN polygon : SameNumber(polygon[k][axis], m)
    /\ \A k \in DOMAIN polygon : ~RatLess(m, polygon[k][axis])

\* along `axis`, every vertex of `mask` is `factor` times as far from the
\* least coordinate of `region` as the same vertex of `region`, the least
\* coordinate is the same, and the extent is `factor` times the extent
StretchedAlong(mask, region, axis, factor) ==
    \E i, j, n \in DOMAIN region :
        LET least == region[i][axis]
        IN /\ LeastOf(least, region, axis)
           /\ LeastOf(least, mask, axis)
           /\ \A k \in DOMAIN region :
                 (mask[k][axis].num * least.den - least.num * mask[k][axis].den)
                     * region[k][axis].den
                   = factor
                     * (region[k][axis].num * least.den - least.num * region[k][axis].den)
                     * mask[k][axis].den
           /\ GreatestOf(region[j][axis], region, axis)
           /\ GreatestOf(mask[n][axis], mask, axis)
           /\ (mask[n][axis].num * least.den - least.num * mask[n][axis].den)
                  * region[j][axis].den
                = factor
                  * (region[j][axis].num * least.den - least.num * region[j][axis].den)
                  * mask[n][axis].den

ExpandedFrom(mask, region) ==
    /\ Len(mask) = Len(region)
    /\ StretchedAlong(mask, region, "x", 4)
    /\ StretchedAlong(mask, region, "y", 2)

\* the filled CVC paths are the fillable regions, each expanded, in order
CvcMasked(masks, regions) ==
    /\ Len(masks) = Len(Fillable(regions))
    /\ \A k \in DOMAIN masks : ExpandedFrom(masks[k], Fillable(regions)[k])

\* the regions of one side as numbers: as reported on the front, with the
\* split taken off every y on the back
SideRegions(boxes, r, front) ==
    LET mine == SelectSeq(boxes, LAMBDA box : MeanBelowSplit(box, r) = front)
    IN [k \in 1..Len(mine) |->
          IF front THEN Numbers(mine[k].polygon)
          ELSE BackNumbers(Shifted(mine[k], r).polygon)]

\* C24: CVC regions, and only CVC regions, are expanded before masking: each
\* vertex's offset from the polygon's minimum (x, y) corner is multiplied by
\* 4 horizontally and by 2 vertically, so the minimum corner is unchanged
\* and the bounding box becomes 4 times as wide and 2 times as high;
\* card-number regions are masked with their original vertices.  For the
\* back image the expansion is applied to the coordinates already shifted by
\* apiFrontHeight.
C24_OnlyCvcExpanded ==
    /\ redacted # <<>> =>
          /\ redacted[1].cardMasks
                = Fillable([k \in 1..Len(redaction.card_number_boxes) |->
                              Numbers(redaction.card_number_boxes[k].polygon)])
          /\ CvcMasked(redacted[1].cvcMasks,
                       [k \in 1..Len(redaction.cvc_boxes) |->
                          Numbers(redaction.cvc_boxes[k].polygon)])
    /\ separate # <<>> =>
          /\ separate[1].frontCardMasks
                = Fillable(SideRegions(redaction.card_number_boxes, redaction, TRUE))
          /\ separate[1].backCardMasks
                = Fillable(SideRegions(redaction.card_number_boxes, redaction, FALSE))
          /\ CvcMasked(separate[1].frontCvcMasks,
                       SideRegions(redaction.cvc_boxes, redaction, TRUE))
          /\ CvcMasked(separate[1].backCvcMasks,
                       SideRegions(redaction.cvc_boxes, redaction, FALSE))

\* a pair whose back image got a CVC mask of a region that began off the
\* origin and a card-number mask, after a split that is not a whole number
C24_Witness ==
    /\ separate # <<>>
    /\ separate[1].apiFrontHeight.num % separate[1].apiFrontHeight.den # 0
    /\ Len(separate[1].backCardMasks) > 0
    /\ \E k \in DOMAIN separate[1].backCvcMasks :
          /\ separate[1].backCvcMasks[k]
                # Fillable(SideRegions(redaction.cvc_boxes, redaction, FALSE))[k]
          /\ \E v \in DOMAIN separate[1].backCvcMasks[k] :
                separate[1].backCvcMasks[k][v].x.num # 0
    /\ redacted # <<>>
    /\ Len(redacted[1].cvcMasks) > 0

Positive(q) == RatLess(Rat(0, 1), q)

\* C29: for a front/back pair whose two images both have positive height,
\* the split boundary apiFrontHeight used by applyRedactionToSeparateImages
\* lies strictly between 0 and the page height, so both sub-image heights
\* used for vertical scaling are positive, also when the response carries no
\* page entry or a zero page height and the height handed in by the caller
\* stands in for the page height.
C29_Claim ==
    (separate # <<>> /\ redaction.frontHeight > 0 /\ redaction.backHeight > 0) =>
        /\ Positive(separate[1].apiFrontHeight)
        /\ RatLess(separate[1].apiFrontHeight, Rat(apiImageHeight(redaction), 1))
        /\ Positive(separate[1].frontPageHeight)
        /\ Positive(separate[1].backPageHeight)

\* the same, for responses that carry a page with a positive height
C29_WithPageHeight ==
    (separate # <<>> /\ redaction.pageHeight > 0) =>
        /\ Positive(separate[1].apiFrontHeight)
        /\ RatLess(separate[1].apiFrontHeight, Rat(redaction.pageHeight, 1))
        /\ Positive(separate[1].frontPageHeight)
        /\ Positive(separate[1].backPageHeight)

\* without a page height the fourth argument decides, and processFolder
\* passes 0: the split and both sub-image heights are 0
C29_ZeroWithoutPageHeight ==
    (separate # <<>> /\ redaction.pageHeight = 0 /\ redaction.mergedImageHeight = 0) =>
        /\ separate[1].apiFrontHeight.num = 0
        /\ separate[1].frontPageHeight.num = 0
        /\ separate[1].backPageHeight.num = 0

\* the rows of the first k customers of the run
RECURSIVE RowsOfFirst(_)
RowsOfFirst(k) ==
    IF k = 0 THEN 0 ELSE Len(customerGroups[k].rowIndices) + RowsOfFirst(k - 1)

\* C25: every started run ends with status 'complete' and never with status
\* 'error', provided every awaited call and decode settles; on each path
\* through a customer (no folder, success, caught exception) processedCount
\* grows exactly once by that customer's row count, so it never decreases
\* and equals the number of spreadsheet rows when the status is 'complete'.
C25_RunCompletesAndCounts ==
    /\ [](status # "error")
    /\ (status = "processing") ~> (status = "complete")
    /\ [][ /\ processedCount' >= processedCount
           /\ processedCount' # processedCount =>
                 /\ customerIndex' \in 1..Len(customerGroups')
                 /\ processedCount'
                       = processedCount + Len(customerGroups'[customerIndex'].rowIndices)
                 /\ pc' = "loop" ]_vars
    /\ []((pc = "loop" /\ status = "processing") =>
             processedCount = RowsOfFirst(customerIndex))
    /\ []((status = "processing" /\ pc # "loop" /\ customerIndex > 0) =>
             processedCount = RowsOfFirst(customerIndex - 1))
    /\ [](status = "complete" => processedCount = Len(csvRows))

\* a finished run of two customers, one without folder and one whose folder
\* was ended by the catch block, with every row counted
C25_Witness ==
    /\ status = "complete"
    /\ processedCount = Len(csvRows)
    /\ Len(customerGroups) >= 2
    /\ \E i \in DOMAIN csvRows : csvRows[i][KeyCCN] = FolderNotFound
    /\ \E i \in DOMAIN csvRows : csvRows[i][KeyCCN] = ProcessingError

Sentinels == {NotFound, FolderNotFound, ProcessingError}

\* row i got another actual card number or another actual validation
ActualWritten(i) ==
    \/ Get(updatedRows'[i], KeyCCN) # Get(updatedRows[i], KeyCCN)
    \/ Get(updatedRows'[i], KeyLuhn) # Get(updatedRows[i], KeyLuhn)

\* C26: every value a run writes to 'CCN Actual' is a non-empty string of
\* digits only or one of the sentinels NOT_FOUND, FOLDER_NOT_FOUND,
\* PROCESSING_ERROR, and the 'Luhn Test Actual' written together with it is
\* 'Pass' exactly when luhn_validate accepts that card number, so it is
\* 'Fail' next to a sentinel.
C26_WrittenValues ==
    [][\A i \in DOMAIN updatedRows \cap DOMAIN updatedRows' :
          ActualWritten(i) =>
             LET ccn == Get(updatedRows'[i], KeyCCN)
                 luhn == Get(updatedRows'[i], KeyLuhn)
             IN /\ ccn \in Sentinels \/ (ccn # Undefined /\ Len(ccn) > 0 /\ IsDigits(ccn))
                /\ luhn \in {"Pass", "Fail"}
                /\ luhn = "Pass" <=> luhn_validate(ccn)
                /\ ccn \in Sentinels => luhn = "Fail"]_vars

\* a run that wrote an accepted card number with 'Pass' into one row and the
\* outcome NOT_FOUND with 'Fail' into another
C26_Witness ==
    /\ \E i \in DOMAIN updatedRows :
          /\ updatedRows[i][KeyCCN] = "4532015112830366"
          /\ updatedRows[i][KeyLuhn] = "Pass"
          /\ csvRows[i][KeyCCN] # "4532015112830366"
    /\ \E i \in DOMAIN updatedRows :
          /\ updatedRows[i][KeyCCN] = NotFound
          /\ updatedRows[i][KeyLuhn] = "Fail"
    /\ \E k \in DOMAIN outcomes : outcomes[k].ccn = NotFound /\ outcomes[k].rows # {}

\* the name is missing or normalizes to the empty string
EmptyName(name) == normalizeCustomerName(name) = ""

\* C27: findMatchingFolder never matches on an empty name: a folder whose
\* parsed customer name normalizes to the empty string is not returned for a
\* customer with a non-empty name, and a customer whose name is missing or
\* normalizes to empty is not matched to a folder with a non-empty name.
C27_Claim ==
    (returned # <<>> /\ returned[1].fn = "findMatchingFolder"
        /\ returned[1].value # NullFolder) =>
        EmptyName(returned[1].value.customerName) = EmptyName(nameText[1])

\* a customer is never given a folder whose name has nothing in common with
\* the customer's name unless one of the two names is empty
C27_NonEmptyNamesShareText ==
    (returned # <<>> /\ returned[1].fn = "findMatchingFolder"
        /\ returned[1].value # NullFolder
        /\ ~EmptyName(returned[1].value.customerName) /\ ~EmptyName(nameText[1])) =>
        LET f == normalizeCustomerName(returned[1].value.customerName)
            c == normalizeCustomerName(nameText[1])
        IN Includes(f, c) \/ Includes(c, f)

\* the files of the customer's folder submitted for extraction so far, alone
\* or in a composite
Submitted == UNION {SeqToSet(OcrCalls[k].files) : k \in DOMAIN OcrCalls}

\* C28: in multi-image processing the leftover pass handles exactly the
\* folder files that no pair consumed: a file that was located for a pair
\* (by exact name or by normalized-name equality) and submitted for
\* extraction is not submitted again by the leftover pass.
C28_Claim ==
    [][(pc' = "awaitLeftoverOcr" /\ calls' # calls) =>
          Last(calls').files[1] \notin Submitted]_vars

\* the leftover pass never submits a file whose name a pair spelled exactly
C28_ExactNamesNotResubmitted ==
    [][(pc' = "awaitLeftoverOcr" /\ calls' # calls) =>
          \A k \in DOMAIN cardPairs :
              Last(calls').files[1] \notin {cardPairs[k].front, cardPairs[k].back}]_vars

\* the cards of `cardList` that belong to folder `name`, in emission order
CardsOf(cardList, name) == SelectSeq(cardList, LAMBDA c : c.folderName = name)

\* the card indexes of the list are 0, 1, ..., k-1 in this order
CountsUp(cardList) == \A k \in DOMAIN cardList : cardList[k].cardIndex = k - 1

NoTwoAlike(seq) == \A i, j \in DOMAIN seq : i # j => seq[i] # seq[j]

\* C30: in the redaction pipeline the cards emitted for one folder carry
\* cardIndex 0, 1, ..., k-1 in emission order without gaps or repeats,
\* whichever pairs fail or are skipped (a located pair emits two consecutive
\* cards, front then back), so within a run the card ids
\* '<folderName>-<cardIndex>' are unique and the per-folder download names
\* card<cardIndex+1>.jpg never collide; a failure in one card or one folder
\* never stops the remaining cards or folders.
C30_CardIndexes ==
    /\ [](CountsUp(cards))
    /\ [](pc \in {"cards", "awaitPair", "awaitCard"} => cardIdx = Len(cards))
    /\ [](\A k \in DOMAIN folderStructure :
             /\ CountsUp(CardsOf(redactedCards, folderStructure[k].folderName))
             /\ CountsUp(CardsOf(allCards, folderStructure[k].folderName)))
    /\ [][(pc = "awaitPair" /\ cards' # cards) =>
             /\ Len(cards') = Len(cards) + 2
             /\ SubSeq(cards', 1, Len(cards)) = cards
             /\ cards'[Len(cards) + 1].sourceFiles = <<Pair.front>>
             /\ cards'[Len(cards) + 2].sourceFiles = <<Pair.back>>
             /\ cards'[Len(cards) + 2].cardIndex = cards'[Len(cards) + 1].cardIndex + 1]_vars
    /\ [](NoTwoAlike([k \in DOMAIN redactedCards |-> redactedCards[k].id]))
    /\ [](NoTwoAlike(downloadPaths(redactedCards)))
    /\ [][(pc \in {"awaitOne", "awaitGrouping", "awaitPair", "awaitCard"}) =>
             /\ pc' \in {"cards", "return"}
             /\ status' = "processing"
             /\ SubSeq(cards', 1, Len(cards)) = cards]_vars
    /\ (status = "processing") ~> (status = "complete")
    /\ [](status = "complete" =>
             /\ processedCount = Len(folderStructure)
             /\ redactedCards = allCards)

\* a finished run of two folders in which one folder gave a pair's two cards
\* and a third card, and a folder with two images gave no card at all
C30_Witness ==
    /\ status = "complete"
    /\ Len(folderStructure) = 2
    /\ \E k \in DOMAIN redactedCards :
          /\ redactedCards[k].cardIndex = 2
          /\ redactedCards[k].id = "AL_B_deadbeef01-2"
    /\ Len(folderStructure[2].files) = 2
    /\ CardsOf(redactedCards, folderStructure[2].folderName) = <<>>


====
